---- MODULE Spec2Model ----
(***************************************************************************)
(* A model of the mutatis mutation engine: the two-phase candidate         *)
(* counting / selection protocol of MutationContext and MutationSet        *)
(* (src/src/lib.rs), the built-in mutators that register candidates with   *)
(* it (src/src/mutators.rs, src/src/mutators/core_impls.rs) and the        *)
(* property-check harness (src/src/check.rs).                              *)
(*                                                                         *)
(* A call of a mutate method is modelled as the set of outcomes it can     *)
(* have, one per sequence of values the random number generator can        *)
(* return.  An outcome is a record [ms, value, res]: the MutationSet and   *)
(* the value after the call, and the returned Result.  A panic is the      *)
(* outcome whose res is one of the Panic* strings; it unwinds through      *)
(* every frame.                                                            *)
(***************************************************************************)
EXTENDS Integers, Sequences, FiniteSets, TLC

\* Width in bits of the modelled integer types (u8, i8, ... in the source).
IntBits == 3

\* Width in bits of the raw word gen_index multiplies (32 in the source).
RawBits == 3

\* The engine stops being called once the generator has been used this often.
MaxDraws == 4

\* The largest iteration count and shrink-iteration count given to a Check.
MaxIters == 2

\* The largest initial corpus given to Check::run.
MaxCorpus == 2

\* The largest number of candidates a user-written mutator registers in a pass.
MaxRegs == 3

\* The length N of the modelled non-empty arrays [T; N].
ArrayLen == 2

RECURSIVE Pow2(_)
Pow2(n) == IF n = 0 THEN 1 ELSE 2 * Pow2(n - 1)

\* The values of an integer type: "U" is unsigned, "I" is signed.
Domain(ty) ==
    IF ty = "U" THEN 0 .. (Pow2(IntBits) - 1)
    ELSE (0 - Pow2(IntBits - 1)) .. (Pow2(IntBits - 1) - 1)

Min(a, b) == IF a <= b THEN a ELSE b

Abs(a) == IF a < 0 THEN 0 - a ELSE a

\* Results that are panics: the call does not return, the process aborts.
Panics == {"PanicForgotPropagate", "PanicNoEarlyExit", "PanicNondeterministic",
           "PanicEmptyRange", "PanicUnwrapNone", "PanicUnreachable"}

IsPanic(r) == r \in Panics

\* The errors a caller may see.
PublicErrors == {"Exhausted", "InvalidRange", "Other"}

Outcome(ms, v, r) == [ms |-> ms, value |-> v, res |-> r]

(***************************************************************************)
(* error.rs.  An Error is the name of its kind, or "EarlyExit" for the     *)
(* internal variant; a Result is "Ok" or an Error.  What a method returns  *)
(* is written as a string, "true" or "false" for a bool, or is a panic.    *)
(***************************************************************************)

\* Error::kind: match &self.inner { Kind(kind) => kind, EarlyExit => unreachable!() }
Kind(e) == IF e = "EarlyExit" THEN "PanicUnreachable" ELSE e

\* matches!(self.kind(), k)
KindMatches(e, k) ==
    IF IsPanic(Kind(e)) THEN Kind(e)
    ELSE IF Kind(e) = k THEN "true" ELSE "false"

\* Error::is_exhausted, Error::is_invalid_range, Error::is_other
IsExhausted(e) == KindMatches(e, "Exhausted")

IsInvalidRange(e) == KindMatches(e, "InvalidRange")

IsOther(e) == KindMatches(e, "Other")

\* ResultExt::ignore_exhausted
IgnoreExhausted(r) ==
    IF r = "Ok" THEN "Ok"
    ELSE IF IsPanic(IsExhausted(r)) THEN IsExhausted(r)
    ELSE IF IsExhausted(r) = "true" THEN "Ok" ELSE r

\* The public methods with which a frame can look at an error.
ErrorMethods == {"kind", "is_exhausted", "is_invalid_range", "is_other",
                 "ignore_exhausted"}

\* What the method returns for the error e.
Answer(method, e) ==
    CASE method = "kind" -> Kind(e)
      [] method = "is_exhausted" -> IsExhausted(e)
      [] method = "is_invalid_range" -> IsInvalidRange(e)
      [] method = "is_other" -> IsOther(e)
      [] method = "ignore_exhausted" -> IgnoreExhausted(e)

\* What a closure did when invoked with the context whose generator has the
\* tape rng: the tape afterwards, the value afterwards, its Result.
Closure(rng, v, r) == [rng |-> rng, value |-> v, res |-> r]

\* One register call, as recorded for the pass it belongs to: its 0-based
\* index, whether it invoked its closure, what the closure returned ("none" if
\* not invoked) and what the register call returned.
Event(i, inv, fres, r) == [index |-> i, invoked |-> inv, fres |-> fres, ret |-> r]

(***************************************************************************)
(* Values.  An integer is itself, a bool is a BOOLEAN, unit is "unit"; an  *)
(* Option or Result is a record with a tag and a payload.                  *)
(***************************************************************************)

None == [tag |-> "None"]

Some(v) == [tag |-> "Some", v |-> v]

Ok(v) == [tag |-> "Ok", v |-> v]

Err(v) == [tag |-> "Err", v |-> v]

(***************************************************************************)
(* The random number generator.  Which numbers it returns is left open: a  *)
(* draw returns any value of its range.  Within a top-level call the       *)
(* generator is represented by its tape, the sequence of the values it has *)
(* returned since the call began; a generator built from a given seed      *)
(* returns one fixed sequence of values, so that two generators built from *)
(* the same seed have tapes of which one is a prefix of the other.         *)
(***************************************************************************)

\* GenIndex, but the product is rounded up instead of down.
GenIndexRoundsUp(len) ==
    IF len = 0 THEN { None }
    ELSE { Some((((r * len) % Pow2(2 * RawBits)) + Pow2(RawBits) - 1) \div Pow2(RawBits))
           : r \in 0 .. (Pow2(RawBits) - 1) }

\* Rng::gen_index: None for len = 0, else the random word times len, wrapped
\* to twice the word's width and shifted right by the word's width.
GenIndex(len) ==
    IF len = 0 THEN { None }
    ELSE { Some(((r * len) % Pow2(2 * RawBits)) \div Pow2(RawBits))
           : r \in 0 .. (Pow2(RawBits) - 1) }

\* A closure that assigns rng.gen_range(lo..=hi) to the value; rand panics
\* on an empty range.
GenRangeInclusive(rng, value, lo, hi) ==
    IF lo > hi THEN { Closure(rng, value, "PanicEmptyRange") }
    ELSE { Closure(Append(rng, x), x, "Ok") : x \in lo .. hi }

\* A closure that assigns rng.gen_range(lo..hi) to the value.
GenRangeExclusive(rng, value, lo, hi) == GenRangeInclusive(rng, value, lo, hi - 1)

\* GenMethod, but the value comes from a source other than the generator.
GenMethodOffTape(rng, ty) == { Closure(rng, x, "Ok") : x \in Domain(ty) }

\* Rng::gen_u8 etc: any value of the type.
GenMethod(rng, ty) == { Closure(Append(rng, x), x, "Ok") : x \in Domain(ty) }

(***************************************************************************)
(* MutationSet::mutation                                                   *)
(***************************************************************************)

\* Mutation, but the selected closure's success is returned as Ok instead of
\* as EarlyExit.
MutationNoEarlyExit(ms, value, F) ==
    IF ms.phase = "Count" THEN
        { Outcome([ms EXCEPT !.count = @ + 1,
                             !.log = Append(@, Event(ms.count, FALSE, "none", "Ok"))],
                  value, "Ok") }
    ELSE IF ms.current = ms.target THEN
        { Outcome([ms EXCEPT !.applied_mutation = TRUE,
                             !.rng = f.rng,
                             !.current = @ + 1,
                             !.log = Append(@, Event(ms.current, TRUE, f.res, f.res))],
                  f.value, f.res)
          : f \in F }
    ELSE
        { Outcome([ms EXCEPT !.current = @ + 1,
                             !.log = Append(@, Event(ms.current, FALSE, "none", "Ok"))],
                  value, "Ok") }

\* Mutation, but the counting pass invokes the closures it counts.
MutationCountInvokes(ms, value, F) ==
    IF ms.phase = "Count" THEN
        { Outcome([ms EXCEPT !.count = @ + 1,
                             !.rng = f.rng,
                             !.log = Append(@, Event(ms.count, TRUE, f.res, "Ok"))],
                  f.value, "Ok")
          : f \in F }
    ELSE IF ms.current = ms.target THEN
        { LET r == IF f.res = "Ok" THEN "EarlyExit" ELSE f.res
          IN  Outcome([ms EXCEPT !.applied_mutation = TRUE,
                                 !.rng = f.rng,
                                 !.log = Append(@, Event(ms.current, TRUE, f.res, r))],
                      f.value, r)
          : f \in F }
    ELSE
        { Outcome([ms EXCEPT !.current = @ + 1,
                             !.log = Append(@, Event(ms.current, FALSE, "none", "Ok"))],
                  value, "Ok") }

\* Mutation, but a skipped registration does not advance the running index.
MutationSkipKeepsCurrent(ms, value, F) ==
    IF ms.phase = "Count" THEN
        { Outcome([ms EXCEPT !.count = @ + 1,
                             !.log = Append(@, Event(ms.count, FALSE, "none", "Ok"))],
                  value, "Ok") }
    ELSE IF ms.current = ms.target THEN
        { LET r == IF f.res = "Ok" THEN "EarlyExit" ELSE f.res
          IN  Outcome([ms EXCEPT !.applied_mutation = TRUE,
                                 !.rng = f.rng,
                                 !.log = Append(@, Event(ms.current, TRUE, f.res, r))],
                      f.value, r)
          : f \in F }
    ELSE
        { Outcome([ms EXCEPT !.log = Append(@, Event(ms.current, FALSE, "none", "Ok"))],
                  value, "Ok") }

\* Mutation, but the target's registration returns the EarlyExit signal
\* whatever the closure returned.
MutationHidesError(ms, value, F) ==
    IF ms.phase = "Count" THEN
        { Outcome([ms EXCEPT !.count = @ + 1,
                             !.log = Append(@, Event(ms.count, FALSE, "none", "Ok"))],
                  value, "Ok") }
    ELSE IF ~(ms.current <= ms.target) THEN
        { Outcome([ms EXCEPT !.log = Append(@, Event(ms.current, FALSE, "none",
                                                     "PanicForgotPropagate"))],
                  value, "PanicForgotPropagate") }
    ELSE IF ms.current = ms.target THEN
        { Outcome([ms EXCEPT !.applied_mutation = TRUE,
                             !.rng = f.rng,
                             !.log = Append(@, Event(ms.current, TRUE, f.res,
                                                     "EarlyExit"))],
                  f.value, "EarlyExit")
          : f \in F }
    ELSE
        { Outcome([ms EXCEPT !.current = @ + 1,
                             !.log = Append(@, Event(ms.current, FALSE, "none", "Ok"))],
                  value, "Ok") }

\* F is the set of things the closure f can do when invoked now.
Mutation(ms, value, F) ==
    IF ms.phase = "Count" THEN
        { Outcome([ms EXCEPT !.count = @ + 1,
                             !.log = Append(@, Event(ms.count, FALSE, "none", "Ok"))],
                  value, "Ok") }
    ELSE IF ~(ms.current <= ms.target) THEN
        { Outcome([ms EXCEPT !.log = Append(@, Event(ms.current, FALSE, "none",
                                                     "PanicForgotPropagate"))],
                  value, "PanicForgotPropagate") }
    ELSE IF ms.current = ms.target THEN
        { LET r == IF f.res = "Ok" THEN "EarlyExit" ELSE f.res
          IN  Outcome([ms EXCEPT !.applied_mutation = TRUE,
                                 !.rng = f.rng,
                                 !.log = Append(@, Event(ms.current, TRUE, f.res, r))],
                      f.value, r)
          : f \in F }
    ELSE
        { Outcome([ms EXCEPT !.current = @ + 1,
                             !.log = Append(@, Event(ms.current, FALSE, "none", "Ok"))],
                  value, "Ok") }

(***************************************************************************)
(* Mutators.  A mutator is a record with a kind:                           *)
(*   Ints      the ints! mutators of mutators.rs, for the type ty          *)
(*   CoreInts  the ints! mutators of mutators/core_impls.rs                *)
(*   Bool, Unit                                                            *)
(*   Range     range(start..=end) over the default mutator of ty           *)
(*   Option    option(inner)                                               *)
(*   Result    result(ok, err)                                             *)
(*   Tuple2    tuple2(a, b)                                                *)
(*   Char      char(), a char being modelled as an unsigned integer        *)
(*   Array     array(inner), for arrays of n elements                      *)
(*   User      a user's implementation of the Mutate trait for an integer, *)
(*             which need not keep to the trait's rules (see UserMutate)   *)
(*   Or        left.or(right), the choice between two mutators of a type   *)
(*   Some      some(inner), the option mutator that never makes a None     *)
(*   Inspect   a user's implementation that looks at the error of its      *)
(*             nested call with a method of Error (see InspectMutate)      *)
(***************************************************************************)

RECURSIVE Mutate(_, _, _)
RECURSIVE Generate(_, _)
RECURSIVE ChooseAndApplyMutation(_, _, _)

\* BoolMutate, but the value is negated outside the registered closure.
BoolMutateOutsideClosure(ms, value) ==
    IF ~ms.shrink \/ value
    THEN Mutation(ms, ~value, { Closure(ms.rng, ~value, "Ok") })
    ELSE { Outcome(ms, value, "Ok") }

\* BoolMutate, but the candidate is registered in shrink mode for false too.
BoolMutateShrinkNegates(ms, value) ==
    Mutation(ms, value, { Closure(ms.rng, ~value, "Ok") })

\* impl Mutate<bool> for Bool
BoolMutate(ms, value) ==
    IF ~ms.shrink \/ value
    THEN Mutation(ms, value, { Closure(ms.rng, ~value, "Ok") })
    ELSE { Outcome(ms, value, "Ok") }

\* IntsMutate, but in shrink mode the value is redrawn from the whole type.
IntsMutateShrinkRedraws(m, ms, value) ==
    IF ms.shrink /\ value = 0 THEN { Outcome(ms, value, "Ok") }
    ELSE Mutation(ms, value, GenMethod(ms.rng, m.ty))

\* ints! Mutate::mutate of mutators.rs
IntsMutate(m, ms, value) ==
    IF ms.shrink THEN
        IF value /= 0
        THEN Mutation(ms, value, GenRangeInclusive(ms.rng, value, 0, value))
        ELSE { Outcome(ms, value, "Ok") }
    ELSE Mutation(ms, value, GenMethod(ms.rng, m.ty))

\* ints! Mutate::mutate of mutators/core_impls.rs
CoreIntsMutate(m, ms, value) ==
    IF ms.shrink /\ value = 0 THEN { Outcome(ms, value, "Ok") }
    ELSE Mutation(ms, value,
                  IF ms.shrink THEN GenRangeExclusive(ms.rng, value, 0, value)
                  ELSE GenMethod(ms.rng, m.ty))

\* ints! Generate::generate
IntsGenerate(m, ctx) == GenMethod(ctx.rng, m.ty)

\* IntsMutateInRange, but without the check for an inverted range.
IntsMutateInRangeNoCheck(ms, value, start, end) ==
    IF value = start /\ ms.shrink THEN { Outcome(ms, value, "Ok") }
    ELSE Mutation(ms, value,
                  LET end2 == IF ms.shrink THEN Min(value, end) ELSE end
                  IN  GenRangeInclusive(ms.rng, value, start, end2))

\* IntsMutateInRange, but the upper bound is the range's end in shrink mode
\* too.
IntsMutateInRangeNoClamp(ms, value, start, end) ==
    IF start > end THEN { Outcome(ms, value, "InvalidRange") }
    ELSE IF value = start /\ ms.shrink THEN { Outcome(ms, value, "Ok") }
    ELSE Mutation(ms, value, GenRangeInclusive(ms.rng, value, start, end))

\* ints! MutateInRange::mutate_in_range
IntsMutateInRange(ms, value, start, end) ==
    IF start > end THEN { Outcome(ms, value, "InvalidRange") }
    ELSE IF value = start /\ ms.shrink THEN { Outcome(ms, value, "Ok") }
    ELSE Mutation(ms, value,
                  LET end2 == IF ms.shrink THEN Min(value, end) ELSE end
                  IN  GenRangeInclusive(ms.rng, value, start, end2))

\* The blocks of characters Char::mutate registers a range mutation for (in
\* the source the non-control ASCII characters, then the blocks of the planes
\* 0 to 3), scaled to the modelled width.
CharBlocks ==
    << [start |-> 2, end |-> Pow2(IntBits) - 3],
       [start |-> 0, end |-> Pow2(IntBits - 1) - 1],
       [start |-> Pow2(IntBits - 1), end |-> Pow2(IntBits) - 1] >>

\* range(c(..)..=c(..)).mutate(muts, value)? for the blocks i, i + 1, ... and
\* then the catch-all candidate, from the outcome o of the blocks before.
RECURSIVE CharBlocksFrom(_, _)
CharBlocksFrom(i, o) ==
    IF i > Len(CharBlocks)
    THEN Mutation(o.ms, o.value, GenMethod(o.ms.rng, "U"))
    ELSE UNION { IF r.res /= "Ok" THEN { r } ELSE CharBlocksFrom(i + 1, r)
                 : r \in IntsMutateInRange(o.ms, o.value, CharBlocks[i].start,
                                           CharBlocks[i].end) }

\* impl Mutate<char> for Char
CharMutate(ms, value) ==
    IF ms.shrink THEN
        IF value /= 0
        THEN Mutation(ms, value, GenRangeExclusive(ms.rng, value, 0, value))
        ELSE { Outcome(ms, value, "Ok") }
    ELSE CharBlocksFrom(1, Outcome(ms, value, "Ok"))

\* impl Mutate<()> for Unit
UnitMutate(ms, value) == { Outcome(ms, value, "Ok") }

\* impl Mutate<T> for Range<M, T>
RangeMutate(m, ms, value) == IntsMutateInRange(ms, value, m.start, m.end)

\* impl Generate<T> for Range<M, T>: generate any value, then mutate it into
\* the range with a nested top-level mutation.
RangeGenerate(m, ctx) ==
    UNION { IF g.res /= "Ok" THEN { g }
            ELSE { Closure(c.rng, c.value, c.res)
                   : c \in ChooseAndApplyMutation(m, [ctx EXCEPT !.rng = g.rng],
                                                  g.value) }
            : g \in IntsGenerate(m, ctx) }

\* The closure |ctx| Ok(*value = wrap(generate(ctx)?)): G is what generate can
\* do, W maps each generated value to the new value.
Assign(value, G, W) ==
    { Closure(g.rng, IF g.res = "Ok" THEN W[g.value] ELSE value, g.res)
      : g \in G }

\* The payload values a generator can produce.
Generated(G) == { g.value : g \in G }

\* OptionMutate, but without the early return for None in shrink mode.
OptionMutateShrinkGrows(m, ms, value) ==
    IF value.tag = "None" THEN
        LET G == Generate(m.inner, [shrink |-> ms.shrink, rng |-> ms.rng])
        IN  Mutation(ms, value,
                     Assign(value, G, [x \in Generated(G) |-> Some(x)]))
    ELSE
        UNION { IF o.res /= "Ok" THEN { Outcome(o.ms, Some(o.value), o.res) }
                ELSE Mutation(o.ms, Some(o.value),
                              { Closure(o.ms.rng, None, "Ok") })
                : o \in Mutate(m.inner, ms, value.v) }

\* impl Mutate<Option<T>> for Option<M>
OptionMutate(m, ms, value) ==
    IF ms.shrink /\ value.tag = "None" THEN { Outcome(ms, value, "Ok") }
    ELSE IF value.tag = "None" THEN
        LET G == Generate(m.inner, [shrink |-> ms.shrink, rng |-> ms.rng])
        IN  Mutation(ms, value,
                     Assign(value, G, [x \in Generated(G) |-> Some(x)]))
    ELSE
        UNION { IF o.res /= "Ok" THEN { Outcome(o.ms, Some(o.value), o.res) }
                ELSE Mutation(o.ms, Some(o.value),
                              { Closure(o.ms.rng, None, "Ok") })
                : o \in Mutate(m.inner, ms, value.v) }

\* SomeMutate, but it registers what the option mutator registers.
SomeMutateLikeOption(m, ms, value) == OptionMutate(m, ms, value)

\* impl Mutate<Option<T>> for Some<M>
SomeMutate(m, ms, value) ==
    IF ms.shrink /\ value.tag = "None" THEN { Outcome(ms, value, "Ok") }
    ELSE IF value.tag = "None" THEN
        LET G == Generate(m.inner, [shrink |-> ms.shrink, rng |-> ms.rng])
        IN  Mutation(ms, value,
                     Assign(value, G, [x \in Generated(G) |-> Some(x)]))
    ELSE
        { Outcome(o.ms, Some(o.value), o.res) : o \in Mutate(m.inner, ms, value.v) }

\* ResultMutate, but the Ok-to-Err candidate is registered in shrink mode too.
ResultMutateShrinkErr(m, ms, value) ==
    IF value.tag = "Ok" THEN
        UNION { IF o.res /= "Ok" THEN { Outcome(o.ms, Ok(o.value), o.res) }
                ELSE LET G == Generate(m.err, [shrink |-> o.ms.shrink,
                                               rng |-> o.ms.rng])
                     IN  Mutation(o.ms, Ok(o.value),
                                  Assign(Ok(o.value), G,
                                         [x \in Generated(G) |-> Err(x)]))
                : o \in Mutate(m.ok, ms, value.v) }
    ELSE
        UNION { IF o.res /= "Ok" THEN { Outcome(o.ms, Err(o.value), o.res) }
                ELSE LET G == Generate(m.ok, [shrink |-> o.ms.shrink,
                                              rng |-> o.ms.rng])
                     IN  Mutation(o.ms, Err(o.value),
                                  Assign(Err(o.value), G,
                                         [x \in Generated(G) |-> Ok(x)]))
                : o \in Mutate(m.err, ms, value.v) }

\* impl Mutate<Result<T, E>> for Result<M, N>
ResultMutate(m, ms, value) ==
    IF value.tag = "Ok" THEN
        UNION { IF o.res /= "Ok" THEN { Outcome(o.ms, Ok(o.value), o.res) }
                ELSE IF ~o.ms.shrink THEN
                    LET G == Generate(m.err, [shrink |-> o.ms.shrink,
                                              rng |-> o.ms.rng])
                    IN  Mutation(o.ms, Ok(o.value),
                                 Assign(Ok(o.value), G,
                                        [x \in Generated(G) |-> Err(x)]))
                ELSE { Outcome(o.ms, Ok(o.value), "Ok") }
                : o \in Mutate(m.ok, ms, value.v) }
    ELSE
        UNION { IF o.res /= "Ok" THEN { Outcome(o.ms, Err(o.value), o.res) }
                ELSE LET G == Generate(m.ok, [shrink |-> o.ms.shrink,
                                              rng |-> o.ms.rng])
                     IN  Mutation(o.ms, Err(o.value),
                                  Assign(Err(o.value), G,
                                         [x \in Generated(G) |-> Ok(x)]))
                : o \in Mutate(m.err, ms, value.v) }

\* tuples! Mutate::mutate, for tuple2
Tuple2Mutate(m, ms, value) ==
    UNION { IF o.res /= "Ok" THEN { Outcome(o.ms, [value EXCEPT !.a = o.value], o.res) }
            ELSE { Outcome(p.ms, [value EXCEPT !.b = p.value], p.res)
                   : p \in Mutate(m.b, o.ms, value.b) }
            : o \in Mutate(m.a, ms, value.a) }

\* The loop of Array::mutate from the element i on: o is the outcome of the
\* elements before, whose value is the whole array.
RECURSIVE ArrayFrom(_, _, _)
ArrayFrom(m, i, o) ==
    IF i > Len(o.value) \/ o.res /= "Ok" THEN { o }
    ELSE UNION { ArrayFrom(m, i + 1,
                           Outcome(r.ms, [o.value EXCEPT ![i] = r.value], r.res))
                 : r \in Mutate(m.inner, o.ms, o.value[i]) }

\* ArrayMutate, but the loop ends after the first element.
ArrayMutateFirstOnly(m, ms, value) ==
    IF Len(value) = 0 THEN { Outcome(ms, value, "Ok") }
    ELSE { Outcome(r.ms, [value EXCEPT ![1] = r.value], r.res)
           : r \in Mutate(m.inner, ms, value[1]) }

\* impl Mutate<[T; N]> for Array<N, M>
ArrayMutate(m, ms, value) == ArrayFrom(m, 1, Outcome(ms, value, "Ok"))

\* The registrations i .. n of a user's mutate method, made one after the
\* other from the outcome o of those before: the i-th is
\*     muts.mutation(|_| Ok(*value = i))?      if m.propagate[i]
\*     let _ = muts.mutation(|_| Ok(*value = i));     otherwise
\* and the method ends with Ok(()).
RECURSIVE UserRegistrations(_, _, _, _)
UserRegistrations(m, i, n, o) ==
    IF i > n THEN { o }
    ELSE UNION { IF IsPanic(r.res) THEN { r }
                 ELSE IF r.res /= "Ok" /\ m.propagate[i] THEN { r }
                 ELSE UserRegistrations(m, i + 1, n, Outcome(r.ms, r.value, "Ok"))
                 : r \in Mutation(o.ms, o.value, { Closure(o.ms.rng, i, "Ok") }) }

\* A user's impl Mutate<u8>: it registers m.first candidates when called for
\* the counting pass and m.second when called again for the applying pass (it
\* is deterministic, as the trait demands, only if the two are equal), and
\* propagates the result of its i-th registration only if m.propagate[i].
UserMutate(m, ms, value) ==
    UserRegistrations(m, 1, IF ms.phase = "Count" THEN m.first ELSE m.second,
                      Outcome(ms, value, "Ok"))

\* A user's impl Mutate that looks at the error of a nested mutate call:
\*     self.inner.mutate(muts, value).ignore_exhausted()
\* for m.method = "ignore_exhausted", and for the other methods
\*     self.inner.mutate(muts, value).map_err(|e| { let _ = e.method(); e })
InspectMutate(m, ms, value) ==
    { IF o.res = "Ok" \/ IsPanic(o.res) THEN o
      ELSE IF IsPanic(Answer(m.method, o.res)) \/ m.method = "ignore_exhausted"
           THEN Outcome(o.ms, o.value, Answer(m.method, o.res))
           ELSE o
      : o \in Mutate(m.inner, ms, value) }

\* impl Mutate<T> for Or<M1, M2>: the left mutator registers its candidates,
\* then the right one registers its own.
\*     self.left.mutate(muts, value)?; self.right.mutate(muts, value)
OrMutate(m, ms, value) ==
    UNION { IF o.res /= "Ok" THEN { o } ELSE Mutate(m.right, o.ms, o.value)
            : o \in Mutate(m.left, ms, value) }

\* Mutate::mutate, dispatched on the mutator's type.
Mutate(m, ms, value) ==
    CASE m.kind = "Bool"     -> BoolMutate(ms, value)
      [] m.kind = "Ints"     -> IntsMutate(m, ms, value)
      [] m.kind = "CoreInts" -> CoreIntsMutate(m, ms, value)
      [] m.kind = "Unit"     -> UnitMutate(ms, value)
      [] m.kind = "Range"    -> RangeMutate(m, ms, value)
      [] m.kind = "Option"   -> OptionMutate(m, ms, value)
      [] m.kind = "Some"     -> SomeMutate(m, ms, value)
      [] m.kind = "Result"   -> ResultMutate(m, ms, value)
      [] m.kind = "Tuple2"   -> Tuple2Mutate(m, ms, value)
      [] m.kind = "Char"     -> CharMutate(ms, value)
      [] m.kind = "Array"    -> ArrayMutate(m, ms, value)
      [] m.kind = "User"     -> UserMutate(m, ms, value)
      [] m.kind = "Or"       -> OrMutate(m, ms, value)
      [] m.kind = "Inspect"  -> InspectMutate(m, ms, value)

\* Generate::generate, dispatched on the mutator's type.
Generate(m, ctx) ==
    CASE m.kind = "Range" -> RangeGenerate(m, ctx)
      [] OTHER            -> IntsGenerate(m, ctx)

(***************************************************************************)
(* MutationContext::choose_and_apply_mutation                              *)
(***************************************************************************)

\* What one top-level mutation did: the generator and value afterwards, the
\* returned Result, and a record of its two passes; c is the outcome of the
\* counting pass.
Call(rng, v, r, c, target, applyLog, applied, applyRes) ==
    [rng |-> rng, value |-> v, res |-> r, count |-> c.ms.count, target |-> target,
     countLog |-> c.ms.log, applyLog |-> applyLog, applied |-> applied,
     countRes |-> c.res, applyRes |-> applyRes,
     countValue |-> c.value, countTape |-> c.ms.rng, countShrink |-> c.ms.shrink]

\* ApplyResult, but without the arm that turns EarlyExit into Ok.
ApplyResultLeaks(a) ==
    CASE a.res = "Ok" /\ a.ms.applied_mutation  -> "PanicNoEarlyExit"
      [] a.res = "Ok" /\ ~a.ms.applied_mutation -> "PanicNondeterministic"
      [] OTHER                                  -> a.res

\* ApplyResult, but an Ok after an applied mutation is taken for success.
ApplyResultAcceptsOk(a) ==
    CASE a.res = "EarlyExit"       -> "Ok"
      [] a.res = "Ok" /\ a.ms.applied_mutation  -> "Ok"
      [] a.res = "Ok" /\ ~a.ms.applied_mutation -> "PanicNondeterministic"
      [] OTHER                     -> a.res

\* ApplyResult, but an applying pass that found no target is reported as
\* an exhausted mutator.
ApplyResultNoTargetExhausted(a) ==
    CASE a.res = "EarlyExit"       -> "Ok"
      [] a.res = "Ok" /\ a.ms.applied_mutation  -> "PanicNoEarlyExit"
      [] a.res = "Ok" /\ ~a.ms.applied_mutation -> "Exhausted"
      [] OTHER                     -> a.res

\* The match on the result of the applying pass.
ApplyResult(a) ==
    CASE a.res = "EarlyExit"       -> "Ok"
      [] a.res = "Ok" /\ a.ms.applied_mutation  -> "PanicNoEarlyExit"
      [] a.res = "Ok" /\ ~a.ms.applied_mutation -> "PanicNondeterministic"
      [] OTHER                     -> a.res

\* CountIsZero, but the check for an empty count never fires.
CountIsNegative(count) == count < 0

\* if count == 0 { return Err(Error::exhausted()) }
CountIsZero(count) == count = 0

ChooseAndApplyMutation(m, ctx, value) ==
    LET muts == [shrink |-> ctx.shrink, rng |-> ctx.rng, phase |-> "Count",
                 count |-> 0, current |-> 0, target |-> 0,
                 applied_mutation |-> FALSE, log |-> << >>]
    IN  UNION {
          IF c.res /= "Ok" THEN
              { Call(c.ms.rng, c.value, c.res, c, -1, << >>, FALSE, "none") }
          ELSE IF CountIsZero(c.ms.count) THEN
              { Call(c.ms.rng, c.value, "Exhausted", c, -1, << >>, FALSE, "none") }
          ELSE
              UNION {
                IF t.tag = "None" THEN
                    { Call(c.ms.rng, c.value, "PanicUnwrapNone", c, -1, << >>,
                           FALSE, "none") }
                ELSE
                    { Call(a.ms.rng, a.value, ApplyResult(a), c, t.v, a.ms.log,
                           a.ms.applied_mutation, a.res)
                      : a \in Mutate(m, [c.ms EXCEPT !.phase = "Mutate",
                                                     !.current = 0,
                                                     !.target = t.v,
                                                     !.rng = Append(@, t.v),
                                                     !.log = << >>],
                                     c.value) }
                : t \in GenIndex(c.ms.count) }
          : c \in Mutate(m, muts, value) }

(***************************************************************************)
(* MapMutate, the map combinator of mutators/combinators.rs.  It is a      *)
(* Mutator<T>, whose mutate method takes the context and makes a whole     *)
(* mutation; its inner mutator's mutate is modelled by the engine's        *)
(* top-level mutation.                                                     *)
(***************************************************************************)

\* The functions mapped: f is given the context and the value and returns a
\* Result.  "ClearLowBits" clears the two low bits of the value, "Fail"
\* returns an error and leaves the value.
MapFns == { "ClearLowBits", "Fail" }

ApplyFn(f, v) ==
    IF f = "ClearLowBits" THEN [value |-> v - (v % 4), res |-> "Ok"]
    ELSE [value |-> v, res |-> "Other"]

\* A call c of the inner mutator, and how often f ran after it, on what.
Mapped(c, v, r, fRuns, fInput) ==
    [call |-> c, value |-> v, res |-> r, fRuns |-> fRuns, fInput |-> fInput]

\* MapMutateMutate, but f is applied before the inner mutator runs.
MapMutateBefore(m, ctx, value) ==
    UNION { IF ApplyFn(m.f, value).res /= "Ok"
            THEN { Mapped(c, value, ApplyFn(m.f, value).res, 1, value) }
            ELSE { Mapped(d, d.value, d.res, 1, value)
                   : d \in ChooseAndApplyMutation(m.inner, ctx,
                                                  ApplyFn(m.f, value).value) }
            : c \in ChooseAndApplyMutation(m.inner, ctx, value) }

\* impl Mutator<T> for MapMutate<M, F>:
\*     self.mutator.mutate(context, value)?; (self.f)(context, value)
MapMutateMutate(m, ctx, value) ==
    { IF c.res /= "Ok" THEN Mapped(c, c.value, c.res, 0, c.value)
      ELSE Mapped(c, ApplyFn(m.f, c.value).value, ApplyFn(m.f, c.value).res,
                  1, c.value)
      : c \in ChooseAndApplyMutation(m.inner, ctx, value) }

(***************************************************************************)
(* FromFn, the mutator of mutators/combinators.rs made from a function,    *)
(* and Mutator::mutate as Check::run calls it.                             *)
(***************************************************************************)

\* from_fn(f)
FromFn(f) == [kind |-> "FromFn", ty |-> "U", f |-> f]

\* The function "Countdown" given to from_fn:
\*     |_, x| if *x == 0 { Err(exhausted) } else { *x -= 1; Ok(()) }
Countdown(v) ==
    IF v = 0 THEN [value |-> v, res |-> "Exhausted"]
    ELSE [value |-> v - 1, res |-> "Ok"]

\* The function "Refuse" given to from_fn: |_, _| Err(Error::other(..))
Refuse(v) == [value |-> v, res |-> "Other"]

\* impl Mutator<T> for FromFn<F>: (self.f)(context, value)
FromFnMutate(m, ctx, value) ==
    IF m.f = "Countdown" THEN { Countdown(value) } ELSE { Refuse(value) }

\* just(value)
Just(c) == [kind |-> "Just", ty |-> "U", value |-> c]

\* JustMutate, but the value is left as it is.
JustMutateKeeps(m, ctx, value) == { [value |-> value, res |-> "Ok"] }

\* impl Mutator<T> for Just<T>: *value = self.value.clone(); Ok(())
JustMutate(m, ctx, value) == { [value |-> m.value, res |-> "Ok"] }

\* one_of(tuple_of_mutators)
OneOf(inner) == [kind |-> "OneOf", ty |-> "U", inner |-> inner]

\* WithEntry::with for the entry m of the tuple: mutator.mutate(context, value)
WithEntry(m, ctx, value) ==
    IF m.kind = "FromFn" THEN FromFnMutate(m, ctx, value)
    ELSE JustMutate(m, ctx, value)

\* The loop of OneOf::mutate with n iterations left: tries is what was picked
\* so far and what it returned.
\*     let i = context.rng().gen_index(len).unwrap();
\*     match self.inner.with_entry(i, ..) {
\*         Err(e) if !e.is_mutator_exhausted() => continue,
\*         result => return result,
\*     }
RECURSIVE OneOfLoop(_, _, _, _, _)
OneOfLoop(m, ctx, n, value, tries) ==
    IF n = 0
    THEN { [value |-> value, res |-> "Exhausted", tries |-> tries] }
    ELSE UNION {
           UNION { LET t == Append(tries, [index |-> i.v, res |-> o.res])
                   IN  IF o.res /= "Ok" /\ o.res /= "Exhausted"
                       THEN OneOfLoop(m, ctx, n - 1, o.value, t)
                       ELSE { [value |-> o.value, res |-> o.res, tries |-> t] }
                   : o \in WithEntry(m.inner[i.v + 1], ctx, value) }
           : i \in GenIndex(Len(m.inner)) }

\* impl Mutator<T> for OneOf<Ms>
OneOfMutate(m, ctx, value) == OneOfLoop(m, ctx, Len(m.inner), value, << >>)

\* mutator.mutate(&mut context, &mut value) in Check::run and Check::shrink:
\* the value afterwards and the Result.
MutatorCall(m, ctx, value) ==
    IF m.kind = "FromFn" THEN FromFnMutate(m, ctx, value)
    ELSE IF m.kind = "OneOf"
    THEN { [value |-> o.value, res |-> o.res] : o \in OneOfMutate(m, ctx, value) }
    ELSE IF m.kind = "Just" THEN JustMutate(m, ctx, value)
    ELSE { [value |-> c.value, res |-> c.res]
           : c \in ChooseAndApplyMutation(m, ctx, value) }

(***************************************************************************)
(* The session: a mutator, the value it is applied to, and the context.    *)
(***************************************************************************)

VARIABLES
    mutator,    \* the mutator given to mutate_with
    value,      \* the value given to mutate_with
    shrink,     \* MutationContext.shrink
    rng,        \* MutationContext.rng: the number of draws made so far
    result,     \* what the last mutate_with returned ("none" before the first)
    last,       \* a record of the last mutate_with call
    check,      \* the Check and the property given to Check::run
    corpus,     \* Check::run's corpus
    pc,         \* where Check::run is
    iter,       \* the number of iterations of the current loop already made
    failing,    \* Check::shrink's value and message
    checkResult,\* what Check::run returned
    evals,      \* the evaluations of the property made so far: how many passed,
                \* how many did not, and the last one that did not
    calls       \* how often the mutator has been called by Check::run

engineVars == << value, shrink, rng, result, last >>

checkVars == << check, corpus, pc, iter, failing, checkResult, evals, calls >>

vars == << mutator, value, shrink, rng, result, last,
           check, corpus, pc, iter, failing, checkResult, evals, calls >>

Ints(ty) == [kind |-> "Ints", ty |-> ty]

CoreInts(ty) == [kind |-> "CoreInts", ty |-> ty]

Range(ty, start, end) == [kind |-> "Range", ty |-> ty, start |-> start, end |-> end]

Option(inner) == [kind |-> "Option", inner |-> inner]
some(inner) == [kind |-> "Some", inner |-> inner]
Inspect(inner, method) == [kind |-> "Inspect", inner |-> inner, method |-> method]

Result(ok, err) == [kind |-> "Result", ok |-> ok, err |-> err]

Tuple2(a, b) == [kind |-> "Tuple2", a |-> a, b |-> b]

Char == [kind |-> "Char", ty |-> "U"]

\* array(inner), as a mutator of [T; n]
Array(inner, n) == [kind |-> "Array", inner |-> inner, n |-> n]

MapMutate(inner, f) == [kind |-> "MapMutate", inner |-> inner, f |-> f]

\* Mutate::or
Or(left, right) == [kind |-> "Or", ty |-> left.ty, left |-> left, right |-> right]

User(first, second, propagate) ==
    [kind |-> "User", ty |-> "U", first |-> first, second |-> second,
     propagate |-> propagate]

Types == {"U", "I"}

\* Every range over either integer type, valid or inverted.
Ranges == UNION { { Range(ty, s, e) : s \in Domain(ty), e \in Domain(ty) }
                  : ty \in Types }

\* The ranges used inside option and result mutators.
InnerRanges == { Range("U", 1, 2), Range("U", 2, 1), Range("I", -1, 1) }

Generators == { Ints("U"), Ints("I") } \cup InnerRanges

\* The user-written mutators: each registers at least one candidate in the
\* counting pass.
UserMutators ==
    { User(f, g, p) : f \in 1 .. MaxRegs, g \in 0 .. MaxRegs,
                      p \in [1 .. MaxRegs -> BOOLEAN] }

\* The mutators that keep to the rules of the Mutate trait: every result of a
\* registration is propagated and both passes register the same candidates.
Propagates(m) == m.kind = "User" => \A i \in 1 .. MaxRegs : m.propagate[i]

Deterministic(m) == m.kind = "User" => m.first = m.second

\* The choices: between two ranges that share no value, between a range and
\* the char mutator, and between the integer mutator and a choice.
OrMutators ==
    { Or(Range("U", 0, 1), Range("U", Pow2(IntBits) - 2, Pow2(IntBits) - 1)),
      Or(Range("U", 0, 1), Char),
      Or(Ints("U"), Or(Range("U", 0, 1), Range("U", 2, 3))) }

\* The mutators made by some(): over the integer mutator, a range and an
\* inverted range.
SomeMutators ==
    { some(g) : g \in { CoreInts("U"), Range("U", 1, 2), Range("U", 2, 1) } }

Mutators ==
    UserMutators \cup SomeMutators \cup
    { Ints(ty) : ty \in Types } \cup { CoreInts(ty) : ty \in Types }
    \cup { [kind |-> "Bool"], [kind |-> "Unit"] }
    \cup Ranges
    \cup { Option(g) : g \in Generators }
    \cup { Result(g, Ints("U")) : g \in Generators }
    \cup { Result(Ints("I"), g) : g \in InnerRanges }
    \cup { Tuple2([kind |-> "Bool"], Option(Ints("U"))) }
    \cup { Char, Array([kind |-> "Bool"], ArrayLen), Array([kind |-> "Bool"], 0) }
    \cup OrMutators

\* The map combinators: over the integer mutators, a range and an inverted
\* range.
MapMutators ==
    { MapMutate(i, f) : i \in { Ints("U"), CoreInts("U"),
                                Range("U", 1, Pow2(IntBits) - 2), Range("U", 2, 1) },
                        f \in MapFns }

\* The values of the type a mutator mutates.
RECURSIVE Values(_)
Values(m) ==
    CASE m.kind = "Bool"   -> BOOLEAN
      [] m.kind \in {"MapMutate", "Inspect"} -> Values(m.inner)
      [] m.kind = "Unit"   -> {"unit"}
      [] m.kind \in {"Option", "Some"} ->
            {None} \cup { Some(x) : x \in Values(m.inner) }
      [] m.kind = "Result" -> { Ok(x) : x \in Values(m.ok) }
                              \cup { Err(x) : x \in Values(m.err) }
      [] m.kind = "Tuple2" -> { [tag |-> "T2", a |-> x, b |-> y]
                                : x \in Values(m.a), y \in Values(m.b) }
      [] m.kind = "Array"  -> [1 .. m.n -> Values(m.inner)]
      [] OTHER             -> Domain(m.ty)

NoCall(v) ==
    [called |-> FALSE, before |-> v, count |-> 0, target |-> -1,
     countLog |-> << >>, applyLog |-> << >>, applied |-> FALSE,
     countRes |-> "none", applyRes |-> "none", draws |-> 0,
     countValue |-> v, countDraws |-> 0, countShrink |-> FALSE,
     mapped |-> FALSE, fRuns |-> 0, fInput |-> v]

NoMessage == [text |-> "", arg |-> 0]

NoFailure == [value |-> 0, message |-> NoMessage]

\* No call of the property yet.
NoEvals == [passed |-> 0, failed |-> 0, lastFailed |-> [value |-> 0, out |-> "none"]]

\* No Check is running.
CheckIdle ==
    /\ check = [iters |-> 0, shrink_iters |-> 0, property |-> [kind |-> "Even"],
                initial_corpus |-> << >>]
    /\ corpus = << >>
    /\ pc = "Idle"
    /\ iter = 0
    /\ failing = NoFailure
    /\ checkResult = [kind |-> "none"]
    /\ evals = NoEvals
    /\ calls = 0

Init ==
    /\ mutator \in Mutators \cup MapMutators
    /\ value \in Values(mutator)
    /\ shrink \in BOOLEAN
    /\ rng = 0
    /\ result = "none"
    /\ last = NoCall(value)
    /\ CheckIdle

\* The record of a top-level mutation c of the value v: called says that it
\* was made by mutate_with.
LastCall(c, v) ==
    [called |-> TRUE, before |-> v, count |-> c.count,
     target |-> c.target, countLog |-> c.countLog,
     applyLog |-> c.applyLog, applied |-> c.applied,
     countRes |-> c.countRes, applyRes |-> c.applyRes,
     draws |-> Len(c.rng), countValue |-> c.countValue,
     countDraws |-> Len(c.countTape),
     countShrink |-> c.countShrink,
     mapped |-> FALSE, fRuns |-> 0, fInput |-> v]

\* MutationBuilder::mutate_with (and mutate, with the default mutator).
MutateWith ==
    /\ mutator.kind /= "MapMutate"
    /\ ~IsPanic(result)
    /\ rng < MaxDraws
    /\ \E c \in ChooseAndApplyMutation(mutator, [shrink |-> shrink, rng |-> << >>],
                                        value) :
          /\ value' = c.value
          /\ rng' = rng + Len(c.rng)
          /\ result' = c.res
          /\ last' = LastCall(c, value)
    /\ UNCHANGED << mutator, shrink >>
    /\ UNCHANGED checkVars

\* Mutator::mutate on a MapMutate: last records the inner mutator's call,
\* whether f ran and on what.
MutatorMutate ==
    /\ mutator.kind = "MapMutate"
    /\ ~IsPanic(result)
    /\ rng < MaxDraws
    /\ \E o \in MapMutateMutate(mutator, [shrink |-> shrink, rng |-> << >>], value) :
          /\ value' = o.value
          /\ rng' = rng + Len(o.call.rng)
          /\ result' = o.res
          /\ last' = [LastCall(o.call, value) EXCEPT !.called = FALSE,
                                                     !.mapped = TRUE,
                                                     !.fRuns = o.fRuns,
                                                     !.fInput = o.fInput]
    /\ UNCHANGED << mutator, shrink >>
    /\ UNCHANGED checkVars

Next == MutateWith \/ MutatorMutate

Spec == Init /\ [][Next]_vars

TypeOK ==
    /\ mutator \in Mutators \cup MapMutators
    /\ shrink \in BOOLEAN
    /\ rng \in Nat
    /\ result \in {"none", "Ok", "EarlyExit"} \cup PublicErrors \cup Panics

(***************************************************************************)
(* Check::run, the property-check harness.  The property is an input: it   *)
(* fails on the values at or above a threshold k, by returning a message   *)
(* or by panicking, or it fails on the odd values with a message that      *)
(* names the value.                                                        *)
(***************************************************************************)

Panicked == [text |-> "<panicked>", arg |-> 0]

\* The thresholds tried: the first fails on every value but 0, the last one
\* on none.
Thresholds == { 1, Pow2(IntBits) }

\* The properties tried: "less than k", returning an error or panicking when
\* it fails, and "is even".
Properties ==
    { [kind |-> "Less", k |-> k, panics |-> FALSE] : k \in Thresholds }
    \cup { [kind |-> "Less", k |-> 1, panics |-> TRUE], [kind |-> "Even"] }

\* The property function: "Ok", "Err" with a message, or "Panic".
Property(p, v) ==
    IF p.kind = "Less" THEN
        IF v < p.k THEN [kind |-> "Ok", msg |-> NoMessage]
        ELSE IF p.panics THEN [kind |-> "Panic", msg |-> NoMessage]
        ELSE [kind |-> "Err", msg |-> [text |-> "expected <", arg |-> p.k]]
    ELSE
        IF v % 2 = 0 THEN [kind |-> "Ok", msg |-> NoMessage]
        ELSE [kind |-> "Err", msg |-> [text |-> "odd", arg |-> v]]

\* CheckOne, but a panic of the property is taken for a pass.
CheckOneIgnoresPanic(p, v) ==
    LET r == Property(p, v)
    IN  CASE r.kind = "Err" -> [ok |-> FALSE, msg |-> r.msg]
          [] OTHER          -> [ok |-> TRUE, msg |-> NoMessage]

\* CheckOne, but a caught panic is reported with an empty message.
CheckOnePanicUnnamed(p, v) ==
    LET r == Property(p, v)
    IN  CASE r.kind = "Ok"  -> [ok |-> TRUE, msg |-> NoMessage]
          [] r.kind = "Err" -> [ok |-> FALSE, msg |-> r.msg]
          [] OTHER          -> [ok |-> FALSE, msg |-> NoMessage]

\* Check::check_one: the property's result, a panic caught and replaced by the
\* placeholder message.
CheckOne(p, v) ==
    LET r == Property(p, v)
    IN  CASE r.kind = "Ok"  -> [ok |-> TRUE, msg |-> NoMessage]
          [] r.kind = "Err" -> [ok |-> FALSE, msg |-> r.msg]
          [] OTHER          -> [ok |-> FALSE, msg |-> Panicked]

\* The record of one evaluation: the value, what the property itself did, and
\* what check_one returned for it.
Eval(p, v) ==
    [value |-> v, out |-> Property(p, v).kind,
     ok |-> CheckOne(p, v).ok, msg |-> CheckOne(p, v).msg]

\* The evaluations after one more, e: counted by what the property itself did.
Evaluated(evs, e) ==
    IF e.out = "Ok"
    THEN [evs EXCEPT !.passed = @ + 1]
    ELSE [evs EXCEPT !.failed = @ + 1,
                     !.lastFailed = [value |-> e.value, out |-> e.out]]

\* CorpusIsEmpty, but the check is skipped.
CorpusCheckSkipped(c) == FALSE

\* if corpus.is_empty() { return Err(CheckError::EmptyCorpus) }
CorpusIsEmpty(c) == c = << >>

\* Keep, but the candidate replaces the failure whether or not it failed.
KeepAlways(f, e) == [value |-> e.value, message |-> e.msg]

\* Check::shrink's match on check_one(candidate): the failure f is replaced by
\* the candidate and its message only if the evaluation e failed.
Keep(f, e) == IF e.ok THEN f ELSE [value |-> e.value, message |-> e.msg]

\* SwapRemove, but it is the last element that is removed.
SwapRemoveLast(seq, i) == [j \in 1 .. (Len(seq) - 1) |-> seq[j]]

\* Vec::swap_remove(i), for a 1-based i.
SwapRemove(seq, i) ==
    [j \in 1 .. (Len(seq) - 1) |-> IF j = i THEN seq[Len(seq)] ELSE seq[j]]

Failed(f) == [kind |-> "Failed", value |-> f.value, message |-> f.message]

\* The mutators given to Check::run.
CheckMutators ==
    { Ints("U"), CoreInts("U"), Range("U", 1, Pow2(IntBits) - 2), Range("U", 2, 1),
      FromFn("Countdown") }

\* The values the initial corpus is made of.
CorpusValues == { 0, Pow2(IntBits) - 1 }

RECURSIVE SeqsUpTo(_, _)
SeqsUpTo(S, n) ==
    IF n = 0 THEN { << >> }
    ELSE SeqsUpTo(S, n - 1)
         \cup { Append(q, x) : q \in { r \in SeqsUpTo(S, n - 1) : Len(r) = n - 1 },
                               x \in S }

\* A configured Check, about to run.  The two loops have MaxIters iterations
\* between them.
InitCheck ==
    /\ mutator \in CheckMutators
    /\ value = 0
    /\ shrink = FALSE
    /\ rng = 0
    /\ result = "none"
    /\ last = NoCall(0)
    /\ check \in [iters : 0 .. MaxIters, shrink_iters : 0 .. MaxIters,
                   property : Properties,
                   initial_corpus : SeqsUpTo(CorpusValues, MaxCorpus)]
    /\ check.iters + check.shrink_iters <= MaxIters
    /\ corpus = << >>
    /\ pc = "Ready"
    /\ iter = 0
    /\ failing = NoFailure
    /\ checkResult = [kind |-> "none"]
    /\ evals = NoEvals
    /\ calls = 0

\* Check::run up to its first loop: an empty corpus is an error.
Run ==
    /\ pc = "Ready"
    /\ corpus' = check.initial_corpus
    /\ IF CorpusIsEmpty(corpus')
       THEN /\ pc' = "Done"
            /\ checkResult' = [kind |-> "EmptyCorpus"]
       ELSE /\ pc' = "VerifyingCorpus"
            /\ checkResult' = checkResult
    /\ UNCHANGED << mutator, check, iter, failing, evals, calls >>
    /\ UNCHANGED engineVars

\* The start of Check::shrink(value, message), entered after the evaluation e
\* failed: with no shrink iterations the failure is reported as it is.
EnterShrink(e) ==
    /\ failing' = [value |-> e.value, message |-> e.msg]
    /\ iter' = 0
    /\ IF check.shrink_iters = 0
       THEN /\ pc' = "Done"
            /\ checkResult' = Failed([value |-> e.value, message |-> e.msg])
       ELSE /\ pc' = "Shrinking"
            /\ checkResult' = checkResult

\* VerifyStep, but a member on which the property fails is passed over.
VerifyStepIgnoresFailure ==
    /\ pc = "VerifyingCorpus"
    /\ IF iter = Len(corpus)
       THEN /\ pc' = "Mutating"
            /\ iter' = 0
            /\ UNCHANGED << failing, checkResult, evals >>
       ELSE LET e == Eval(check.property, corpus[iter + 1])
            IN  /\ evals' = Evaluated(evals, e)
                /\ iter' = iter + 1
                /\ UNCHANGED << pc, failing, checkResult >>
    /\ UNCHANGED << mutator, check, corpus, calls >>
    /\ UNCHANGED engineVars

\* One iteration of the loop over the initial corpus.
VerifyStep ==
    /\ pc = "VerifyingCorpus"
    /\ IF iter = Len(corpus)
       THEN /\ pc' = "Mutating"
            /\ iter' = 0
            /\ UNCHANGED << failing, checkResult, evals >>
       ELSE LET e == Eval(check.property, corpus[iter + 1])
            IN  /\ evals' = Evaluated(evals, e)
                /\ IF e.ok
                   THEN /\ iter' = iter + 1
                        /\ UNCHANGED << pc, failing, checkResult >>
                   ELSE EnterShrink(e)
    /\ UNCHANGED << mutator, check, corpus, calls >>
    /\ UNCHANGED engineVars

\* The rest of a mutation iteration, once the mutator has returned: c is the
\* corpus after the match on its result, i the index chosen before it.
CheckMutated(c, i) ==
    IF i > Len(c)
    THEN /\ pc' = "Aborted"
         /\ UNCHANGED << iter, failing, checkResult, evals >>
    ELSE LET e == Eval(check.property, c[i])
         IN  /\ evals' = Evaluated(evals, e)
             /\ IF e.ok
                THEN /\ iter' = iter + 1
                     /\ UNCHANGED << pc, failing, checkResult >>
                ELSE EnterShrink(e)

\* ReturnMutatorError, but the error is taken for a failure of the property
\* on the value and shrinking starts.
ShrinkOnMutatorError(c) ==
    /\ EnterShrink([value |-> c.value, msg |-> Panicked])
    /\ UNCHANGED << corpus, evals >>

\* Err(e) => return Err(e.into()), for the outcome c of the mutator's call.
ReturnMutatorError(c) ==
    /\ pc' = "Done"
    /\ checkResult' = [kind |-> "MutatorError", error |-> c.res]
    /\ UNCHANGED << corpus, iter, failing, evals >>

\* One iteration of the mutation loop of Check::run.
MutateStep ==
    /\ pc = "Mutating"
    /\ IF iter = check.iters
       THEN /\ pc' = "Done"
            /\ checkResult' = [kind |-> "Ok"]
            /\ UNCHANGED << corpus, iter, failing, evals, calls >>
       ELSE \E index \in GenIndex(Len(corpus)) :
            IF index.tag = "None"
            THEN /\ pc' = "Aborted"
                 /\ UNCHANGED << corpus, iter, failing, checkResult, evals, calls >>
            ELSE
            \E c \in MutatorCall(mutator, [shrink |-> FALSE, rng |-> << >>],
                                 corpus[index.v + 1]) :
              /\ calls' = calls + 1
              /\ CASE IsPanic(c.res) ->
                        /\ pc' = "Aborted"
                        /\ UNCHANGED << corpus, iter, failing, checkResult, evals >>
                   [] c.res = "Ok" ->
                        /\ corpus' = [corpus EXCEPT ![index.v + 1] = c.value]
                        /\ CheckMutated(corpus', index.v + 1)
                   [] c.res = "Exhausted" ->
                        /\ corpus' = SwapRemove(corpus, index.v + 1)
                        /\ IF corpus' = << >>
                           THEN /\ pc' = "Done"
                                /\ checkResult' = [kind |-> "Ok"]
                                /\ UNCHANGED << iter, failing, evals >>
                           ELSE CheckMutated(corpus', index.v + 1)
                   [] OTHER -> ReturnMutatorError(c)
    /\ UNCHANGED << mutator, check >>
    /\ UNCHANGED engineVars

\* IgnoreMutatorError, but the iteration is not counted.
IgnoreMutatorErrorUncounted ==
    UNCHANGED << pc, iter, failing, checkResult, evals >>

\* IgnoreMutatorError, but the error ends the shrink loop.
BreakOnMutatorError ==
    /\ pc' = "Done"
    /\ checkResult' = Failed(failing)
    /\ UNCHANGED << iter, failing, evals >>

\* Err(e) => { log::info!(..); continue; } in the loop of Check::shrink.
IgnoreMutatorError ==
    /\ iter' = iter + 1
    /\ UNCHANGED << pc, failing, checkResult, evals >>

\* One iteration of the loop of Check::shrink.
ShrinkStep ==
    /\ pc = "Shrinking"
    /\ IF iter = check.shrink_iters
       THEN /\ pc' = "Done"
            /\ checkResult' = Failed(failing)
            /\ UNCHANGED << iter, failing, evals, calls >>
       ELSE \E c \in MutatorCall(mutator, [shrink |-> TRUE, rng |-> << >>],
                                 failing.value) :
              /\ calls' = calls + 1
              /\ CASE IsPanic(c.res) ->
                        /\ pc' = "Aborted"
                        /\ UNCHANGED << iter, failing, checkResult, evals >>
                   [] c.res = "Exhausted" ->
                        /\ pc' = "Done"
                        /\ checkResult' = Failed(failing)
                        /\ UNCHANGED << iter, failing, evals >>
                   [] c.res = "Ok" ->
                        LET e == Eval(check.property, c.value)
                        IN  /\ evals' = Evaluated(evals, e)
                            /\ iter' = iter + 1
                            /\ failing' = Keep(failing, e)
                            /\ UNCHANGED << pc, checkResult >>
                   [] OTHER -> IgnoreMutatorError
    /\ UNCHANGED << mutator, check, corpus >>
    /\ UNCHANGED engineVars

NextCheck == Run \/ VerifyStep \/ MutateStep \/ ShrinkStep

CheckSpec == InitCheck /\ [][NextCheck]_vars

(***************************************************************************)
(* Check::shrink with iterations to spare: the shrink loop of a Check      *)
(* whose shrink_iters is large enough never to run out.  The loop is       *)
(* entered with a value from the corpus on which the property failed, and  *)
(* only the loop's own state is followed: the iterations, the calls and    *)
(* the evaluations are not counted.                                        *)
(***************************************************************************)

\* Check::shrink has been entered with the only member v0 of the corpus, on
\* which a property "less than k" fails, and a default unsigned integer
\* mutator.
InitShrink ==
    /\ mutator \in { Ints("U"), CoreInts("U") }
    /\ value = 0
    /\ shrink = FALSE
    /\ rng = 0
    /\ result = "none"
    /\ last = NoCall(0)
    /\ \E k \in Domain("U") : \E v0 \in k .. (Pow2(IntBits) - 1) :
          LET p == [kind |-> "Less", k |-> k, panics |-> FALSE]
          IN  /\ check = [iters |-> 0, shrink_iters |-> MaxIters, property |-> p,
                          initial_corpus |-> << v0 >>]
              /\ corpus = << v0 >>
              /\ failing = [value |-> v0, message |-> CheckOne(p, v0).msg]
              /\ evals = Evaluated(NoEvals, Eval(p, v0))
    /\ pc = "Shrinking"
    /\ iter = 0
    /\ checkResult = [kind |-> "none"]
    /\ calls = 0

\* One iteration of the loop of Check::shrink, not the last.
ShrinkAgain ==
    /\ pc = "Shrinking"
    /\ \E c \in MutatorCall(mutator, [shrink |-> TRUE, rng |-> << >>], failing.value) :
          CASE IsPanic(c.res) ->
                  /\ pc' = "Aborted"
                  /\ UNCHANGED << failing, checkResult >>
            [] c.res = "Exhausted" ->
                  /\ pc' = "Done"
                  /\ checkResult' = Failed(failing)
                  /\ UNCHANGED failing
            [] c.res = "Ok" ->
                  /\ failing' = Keep(failing, Eval(check.property, c.value))
                  /\ UNCHANGED << pc, checkResult >>
            [] OTHER -> UNCHANGED << pc, failing, checkResult >>
    /\ UNCHANGED << mutator, check, corpus, iter, evals, calls >>
    /\ UNCHANGED engineVars

\* An iteration that finds a smaller value on which the property fails.
ShrinkProgress == ShrinkAgain /\ failing'.value < failing.value

\* The loop goes on, and the generator, which returns every value of a range
\* with the same probability at every draw, does not for ever withhold the
\* smaller failing values that every iteration can draw.
ShrinkSpec == InitShrink /\ [][ShrinkAgain]_vars /\ WF_vars(ShrinkProgress)

(***************************************************************************)
(* Mutators that look at the errors of their nested calls, under           *)
(* mutate_with.                                                            *)
(***************************************************************************)

\* The inspecting mutators: over the bool and integer mutators, a range, an
\* inverted range, and a result mutator whose candidate can fail.
InspectMutators ==
    { Inspect(i, f) : i \in { [kind |-> "Bool"], Ints("U"), Range("U", 1, 2),
                              Range("U", 2, 1),
                              Result(Range("U", 1, 2), Ints("U")) },
                      f \in ErrorMethods }

InitInspect ==
    /\ mutator \in InspectMutators
    /\ value \in Values(mutator)
    /\ shrink \in BOOLEAN
    /\ rng = 0
    /\ result = "none"
    /\ last = NoCall(value)
    /\ CheckIdle

InspectSpec == InitInspect /\ [][MutateWith]_vars

(***************************************************************************)
(* The combinators of mutators/combinators.rs, called directly through     *)
(* Mutator::mutate, any number of times in a row.                          *)
(***************************************************************************)

\* The combinators tried: the constant mutators, and choices between none,
\* between a constant and a mutator that is exhausted at 0, and between
\* mutators of which some always fail.
Combinators ==
    { Just(c) : c \in Domain("U") }
    \cup { OneOf(<< >>),
           OneOf(<< Just(1), FromFn("Countdown") >>),
           OneOf(<< FromFn("Refuse"), Just(2) >>),
           OneOf(<< FromFn("Countdown"), FromFn("Refuse"), FromFn("Refuse") >>) }

\* The record of a call of a combinator on the value v, the n-th in a row:
\* tries is what one_of picked and what each pick returned.
CombinatorCall(v, n, tries) ==
    [called |-> FALSE, before |-> v, fRuns |-> n, tries |-> tries]

\* What a call of the combinator m can do, with what it tried.
CombinatorOutcomes(m, ctx, v) ==
    IF m.kind = "OneOf" THEN OneOfMutate(m, ctx, v)
    ELSE { [value |-> o.value, res |-> o.res, tries |-> << >>]
           : o \in MutatorCall(m, ctx, v) }

InitCombinators ==
    /\ mutator \in Combinators
    /\ value \in Domain("U")
    /\ shrink \in BOOLEAN
    /\ rng = 0
    /\ result = "none"
    /\ last = CombinatorCall(value, 0, << >>)
    /\ CheckIdle

\* mutator.mutate(&mut context, &mut value) on a combinator.
CombinatorMutate ==
    /\ last.fRuns < MaxDraws
    /\ \E o \in CombinatorOutcomes(mutator, [shrink |-> shrink, rng |-> << >>],
                                     value) :
          /\ value' = o.value
          /\ result' = o.res
          /\ rng' = rng + Len(o.tries)
          /\ last' = CombinatorCall(value, last.fRuns + 1, o.tries)
    /\ UNCHANGED << mutator, shrink >>
    /\ UNCHANGED checkVars

CombinatorSpec == InitCombinators /\ [][CombinatorMutate]_vars

(***************************************************************************)
(* Properties of the engine.                                               *)
(***************************************************************************)

\* The last call's counting pass completed and registered candidates, and the
\* call returned (its selected closure did not panic).
AppliedAndReturned ==
    /\ Propagates(mutator)
    /\ last.called
    /\ last.countRes = "Ok"
    /\ last.count > 0
    /\ ~IsPanic(result)

\* In the applying pass, every registration below the target was skipped and
\* the registration with the target's index was the last one and the only one
\* to invoke its closure.
OnlyTargetInvoked ==
    /\ Len(last.applyLog) = last.target + 1
    /\ \A i \in 1 .. Len(last.applyLog) :
          /\ last.applyLog[i].index = i - 1
          /\ last.applyLog[i].invoked <=> (i - 1 = last.target)
          /\ (i - 1 < last.target) => last.applyLog[i].ret = "Ok"

\* C1 as stated: in the applying pass of a call that counted count > 0
\* candidates, exactly the closure whose index is the target is invoked, every
\* earlier registration is skipped, and the register call that invoked the
\* closure returns EarlyExit, so no later registration is reached.
C1_AppliedReturnsEarlyExit ==
    AppliedAndReturned =>
        /\ OnlyTargetInvoked
        /\ last.applyLog[last.target + 1].ret = "EarlyExit"

\* C1 as amended: as above, but the register call that invoked the closure
\* returns EarlyExit only if the closure returned Ok; if the closure returned
\* an error, the register call returns that error.  Either way it is the last
\* registration of the pass and its result reaches the engine unchanged.
C1_AppliedReturnsEarlyExitOrError ==
    (/\ Propagates(mutator)
     /\ Deterministic(mutator)
     /\ last.called
     /\ last.countRes = "Ok"
     /\ last.count > 0) =>
        /\ OnlyTargetInvoked
        /\ LET e == last.applyLog[last.target + 1]
           IN  /\ e.ret = (IF e.fres = "Ok" THEN "EarlyExit" ELSE e.fres)
               /\ last.applyRes = e.ret
               /\ last.applied

\* A call that skipped two registrations and applied the third.
C1_Witness ==
    /\ AppliedAndReturned
    /\ last.target = 2
    /\ result = "Ok"
    /\ last.applyLog[3].invoked

\* C2: in the counting pass every register call increments the count by one,
\* returns Ok and does not invoke its closure, so the final count is the number
\* of register calls made.
C2_CountIsNumberOfRegistrations ==
    last.called =>
        /\ last.count = Len(last.countLog)
        /\ \A i \in 1 .. Len(last.countLog) :
              /\ last.countLog[i].index = i - 1
              /\ ~last.countLog[i].invoked
              /\ last.countLog[i].fres = "none"
              /\ last.countLog[i].ret = "Ok"

C2_Witness == last.called /\ Len(last.countLog) = 3 /\ last.count = 3

\* The cases the claim names as having no candidate.
NoCandidateCase ==
    \/ mutator.kind = "Unit"
    \/ shrink /\ mutator.kind \in {"Ints", "CoreInts"} /\ last.before = 0
    \/ shrink /\ mutator.kind = "Bool" /\ last.before = FALSE
    \/ shrink /\ mutator.kind = "Option" /\ last.before = None

\* C3: a call whose counting pass ends with a count of zero (as for unit, and
\* in shrink mode for the integer 0, false and None) returns Exhausted, makes
\* no applying pass, draws nothing, leaves the value unchanged and does not
\* abort.
C3_ZeroCountIsExhausted ==
    /\ (last.called /\ NoCandidateCase) =>
            (last.countRes = "Ok" /\ last.count = 0)
    /\ (last.called /\ last.countRes = "Ok" /\ last.count = 0) =>
            /\ result = "Exhausted"
            /\ last.applyLog = << >>
            /\ last.applyRes = "none"
            /\ last.draws = 0
            /\ value = last.before

C3_Witness ==
    /\ last.called
    /\ shrink
    /\ mutator.kind = "Option"
    /\ last.before = None
    /\ result = "Exhausted"

\* C4: for a range with start <= end, any initial value and either shrink
\* setting, a mutation through the range mutator does not abort and, when it
\* returns Ok, leaves the value within [start, end].
C4_RangeContainment ==
    (last.called /\ mutator.kind = "Range" /\ mutator.start <= mutator.end) =>
        /\ ~IsPanic(result)
        /\ result = "Ok" => (mutator.start <= value /\ value <= mutator.end)

\* C5: in shrink mode, for unsigned and signed integers, a mutation by the
\* default integer mutator does not abort, does not increase the distance from
\* zero, and at 0 returns Exhausted and leaves the value 0.
C5_ShrinkTowardsZero ==
    (last.called /\ shrink /\ mutator.kind \in {"Ints", "CoreInts"}) =>
        /\ ~IsPanic(result)
        /\ result = "Ok" => Abs(value) <= Abs(last.before)
        /\ last.before = 0 => (result = "Exhausted" /\ value = 0)

\* C9: a top-level call returns Exhausted only when its own counting pass
\* registered zero candidates.
C9_ExhaustedOnlyFromZeroCount ==
    (last.called /\ result = "Exhausted") => last.count = 0

\* C10: the result of mutate_with is never EarlyExit; it is Ok exactly when the
\* applying pass ended with EarlyExit, and otherwise one of the public errors.
C10_EarlyExitNeverReturned ==
    (last.called /\ ~IsPanic(result)) =>
        /\ result /= "EarlyExit"
        /\ result \in {"Ok"} \cup PublicErrors
        /\ (result = "Ok") <=> (last.applyRes = "EarlyExit")

C10_Witness ==
    /\ last.called
    /\ last.applyRes = "EarlyExit"
    /\ result = "Ok"
    /\ value /= last.before

\* The applying pass of the last call invoked a closure.
SomeClosureInvoked ==
    \E i \in 1 .. Len(last.applyLog) : last.applyLog[i].invoked

\* C11: if the applying pass invoked the selected closure but the mutator's
\* mutate method returned Ok(()) to the engine instead of EarlyExit, the call
\* ends in the "did not receive an early-exit error" panic and returns nothing.
C11_SwallowedEarlyExitPanics ==
    (last.called /\ SomeClosureInvoked /\ last.applyRes = "Ok") =>
        /\ last.applied
        /\ result = "PanicNoEarlyExit"
        /\ ~ENABLED MutateWith

\* A mutator that discards the result of its only registration.
C11_Witness ==
    /\ last.called
    /\ mutator.kind = "User"
    /\ last.count = 1
    /\ result = "PanicNoEarlyExit"
    /\ last.applyRes = "Ok"
    /\ Len(last.applyLog) = 1
    /\ last.applyLog[1].ret = "EarlyExit"

\* C12: whenever a frame discards the EarlyExit returned by a registration, the
\* next registration of the same applying pass, if there is one, trips the
\* `current <= target` assertion without invoking its closure, and the
\* top-level call does not return normally (for a mutator that registers the
\* same candidates in both passes).
C12_SwallowedEarlyExitDetected ==
    (last.called /\ Deterministic(mutator)) =>
        \A i \in 1 .. Len(last.applyLog) :
            last.applyLog[i].ret = "EarlyExit" =>
                /\ i < Len(last.applyLog) =>
                        /\ last.applyLog[i + 1].ret = "PanicForgotPropagate"
                        /\ ~last.applyLog[i + 1].invoked
                /\ (i < Len(last.applyLog) \/ last.applyRes /= "EarlyExit") =>
                        IsPanic(result)

\* C13 as stated: a mutator whose applying pass registers a different number
\* of candidates than its counting pass makes the call end in the
\* "Nondeterministic mutator implementation" panic.
C13_DifferentCountPanics ==
    (last.called /\ mutator.kind = "User" /\ mutator.second /= mutator.first) =>
        result = "PanicNondeterministic"

\* C13 as amended: the call ends in the "Nondeterministic mutator
\* implementation" panic exactly when the applying pass returned Ok(()) without
\* having invoked a closure, which is when it registered no more candidates
\* than the target's index, and so fewer than were counted; an applying pass
\* that differs from the counting pass but reaches the target is not noticed.
C13_UnreachedTargetPanics ==
    (last.called /\ last.countRes = "Ok" /\ last.count > 0 /\ last.target >= 0) =>
        /\ (last.applyRes = "Ok" /\ ~SomeClosureInvoked)
                <=> (result = "PanicNondeterministic")
        /\ result = "PanicNondeterministic" =>
                /\ Len(last.applyLog) <= last.target
                /\ Len(last.applyLog) < last.count
                /\ ~ENABLED MutateWith
        /\ mutator.kind = "User" =>
                (mutator.second <= last.target <=> result = "PanicNondeterministic")

\* A mutator that counted more candidates than it then registered, with a
\* target among the missing ones.
C13_Witness ==
    /\ last.called
    /\ mutator.kind = "User"
    /\ mutator.second >= 1
    /\ mutator.second < mutator.first
    /\ Len(last.applyLog) = mutator.second
    /\ result = "PanicNondeterministic"

\* C14: for a range with start > end, a mutation through the range mutator
\* returns InvalidRange, registers no candidate, makes no applying pass, draws
\* nothing and leaves the value unchanged, whatever the value and the shrink
\* setting.
C14_InvertedRangeIsInvalid ==
    (last.called /\ mutator.kind = "Range" /\ mutator.start > mutator.end) =>
        /\ result = "InvalidRange"
        /\ last.countRes = "InvalidRange"
        /\ last.count = 0
        /\ last.countLog = << >>
        /\ last.applyLog = << >>
        /\ last.applyRes = "none"
        /\ last.draws = 0
        /\ value = last.before

C14_Witness ==
    /\ last.called
    /\ mutator.kind = "Range"
    /\ mutator.start > mutator.end
    /\ shrink
    /\ value = mutator.start
    /\ result = "InvalidRange"

\* C15: in shrink mode a range mutation of a value at or above start draws
\* from [start, min(value, end)]: a value within the range ends within
\* [start, old value], and a value equal to start registers no candidate, so
\* that the call returns Exhausted and leaves it.
C15_ShrinkRangeClamped ==
    (/\ last.called
     /\ shrink
     /\ mutator.kind = "Range"
     /\ mutator.start <= mutator.end
     /\ mutator.start <= last.before) =>
        /\ (last.before = mutator.start) <=> (result = "Exhausted")
        /\ result = "Exhausted" => (last.count = 0 /\ value = last.before)
        /\ last.before /= mutator.start =>
                /\ result = "Ok"
                /\ mutator.start <= value
                /\ value <= Min(last.before, mutator.end)

\* A shrink step inside the range that went down but not to the start.
C15_Witness ==
    /\ last.called
    /\ shrink
    /\ mutator.kind = "Range"
    /\ last.before <= mutator.end
    /\ mutator.start < value
    /\ value < last.before
    /\ result = "Ok"

\* C16: in shrink mode a successful mutation of an integer v /= 0 by the
\* default integer mutator yields a value strictly smaller than v.
C16_ShrinkStrictlySmaller ==
    (/\ last.called
     /\ shrink
     /\ mutator.kind \in {"Ints", "CoreInts"}
     /\ last.before /= 0
     /\ result = "Ok") => value < last.before

\* The tapes and results of the calls that mutate_with can make now.
Sessions ==
    IF mutator.kind = "MapMutate"
    THEN { << o.call.rng, o.value, o.res >>
           : o \in MapMutateMutate(mutator, [shrink |-> shrink, rng |-> << >>],
                                   value) }
    ELSE { << c.rng, c.value, c.res >>
           : c \in ChooseAndApplyMutation(mutator, [shrink |-> shrink, rng |-> << >>],
                                          value) }

\* C17: for the same mutator, value and shrink flag, what a call returns and
\* the value it leaves are determined by what the generator returns: no two
\* possible calls have the same tape, or tapes of which one begins with the
\* other, and differ (in every state in which a call can be made).  Two
\* sessions built from the same seed, whose generators return the same
\* sequence, so stay equal at every step.
C17_SameSeedSameOutcome ==
    (~IsPanic(result) /\ rng < MaxDraws) =>
        LET S == Sessions
            T == { c[1] : c \in S }
        IN  /\ Cardinality(T) = Cardinality(S)
            /\ \A t \in T : \A k \in 0 .. (Len(t) - 1) : SubSeq(t, 1, k) \notin T

\* A second step that drew twice and succeeded.
C17_Witness ==
    /\ last.called
    /\ ~last.mapped
    /\ last.draws >= 2
    /\ rng > last.draws
    /\ result = "Ok"
    /\ value /= last.before
    /\ Cardinality(Sessions) > 1

\* The counting passes the mutator can make on the current value.
CountingPasses ==
    Mutate(IF mutator.kind = "MapMutate" THEN mutator.inner ELSE mutator,
           [shrink |-> shrink, rng |-> << >>, phase |-> "Count",
            count |-> 0, current |-> 0, target |-> 0,
            applied_mutation |-> FALSE, log |-> << >>], value)

\* C18: for the built-in mutators the counting pass leaves the value and the
\* generator as they were, sees the shrink flag of the call, and has one
\* possible outcome for a given value and shrink flag; the applying pass
\* registers the same candidates in the same order up to its target, so that
\* the call never ends in the nondeterministic-mutator panic.
C18_CountingPassIsPure ==
    mutator.kind /= "User" =>
        /\ Cardinality(CountingPasses) = 1
        /\ \A c \in CountingPasses :
                /\ c.value = value
                /\ c.ms.rng = << >>
                /\ c.ms.shrink = shrink
                /\ c.ms.count = Len(c.ms.log)
        /\ last.called =>
                /\ last.countValue = last.before
                /\ last.countDraws = 0
                /\ last.countShrink = shrink
                /\ result /= "PanicNondeterministic"
                /\ Len(last.applyLog) <= Len(last.countLog)
                /\ \A i \in 1 .. Len(last.applyLog) :
                        last.applyLog[i].index = last.countLog[i].index
                /\ (last.applyLog /= << >> /\ ~IsPanic(result)) =>
                        /\ Len(last.applyLog) = last.target + 1
                        /\ last.applyLog[last.target + 1].invoked

\* The char mutator applied its last candidate, the catch-all.
C18_Witness ==
    /\ last.called
    /\ mutator.kind = "Char"
    /\ last.count = Len(CharBlocks) + 1
    /\ last.target = Len(CharBlocks)
    /\ Len(last.applyLog) = last.count
    /\ result = "Ok"

\* C19: gen_index(len) is None exactly for len = 0; otherwise every draw gives
\* an index below len, and for len up to the number of random words every
\* index below len is given by some draw (the function does not depend on the
\* state, so it is evaluated in the initial states of the unit mutator only,
\* for the lengths up to twice the number of words).  So the engine's target is at least 0 and below
\* count, and unwrapping it never fails.
C19_GenIndexInRange ==
    /\ (~last.called /\ mutator.kind = "Unit") =>
            /\ GenIndex(0) = { None }
            /\ \A len \in 1 .. (2 * Pow2(RawBits)) :
                    LET G == GenIndex(len)
                    IN  /\ None \notin G
                        /\ \A t \in G : 0 <= t.v /\ t.v < len
                        /\ len <= Pow2(RawBits) =>
                                G = { Some(i) : i \in 0 .. (len - 1) }
    /\ (last.called /\ last.countRes = "Ok" /\ last.count > 0) =>
            /\ 0 <= last.target
            /\ last.target < last.count
            /\ result /= "PanicUnwrapNone"

\* The engine drew the last of three or more candidates.
C19_Witness ==
    /\ last.called
    /\ last.count >= 3
    /\ last.target = last.count - 1
    /\ result = "Ok"

\* C20: a successful mutation through a map combinator has applied the
\* function once, to the value left by the inner mutator's chosen candidate,
\* so the value ends as the function's result (with its two low bits clear
\* for "ClearLowBits"); the function adds no candidate to those of the inner
\* mutator; and when the inner mutator fails, with no candidate or with an
\* error, the function is not run, the error is returned and the value is as
\* the inner mutator left it.
C20_MapAppliesFunctionOnce ==
    last.mapped =>
        /\ last.count = Len(last.countLog)
        /\ \A c \in Mutate(mutator.inner,
                            [shrink |-> shrink, rng |-> << >>, phase |-> "Count",
                             count |-> 0, current |-> 0, target |-> 0,
                             applied_mutation |-> FALSE, log |-> << >>],
                            last.before) : c.ms.count = last.count
        /\ result = "Ok" =>
                /\ last.fRuns = 1
                /\ last.applyRes = "EarlyExit"
                /\ SomeClosureInvoked
                /\ value = ApplyFn(mutator.f, last.fInput).value
                /\ mutator.f = "ClearLowBits" => value % 4 = 0
        /\ last.applyRes /= "EarlyExit" =>
                /\ last.fRuns = 0
                /\ result /= "Ok"
                /\ value = last.fInput
                /\ last.countRes /= "Ok" =>
                        (result = last.countRes /\ value = last.before)
                /\ (last.countRes = "Ok" /\ last.count = 0) =>
                        (result = "Exhausted" /\ value = last.before)
        /\ last.fRuns <= 1
        /\ last.fRuns = 1 => last.applyRes = "EarlyExit"

\* The inner mutator produced a value with a low bit set and the function
\* cleared it.
C20_Witness ==
    /\ last.mapped
    /\ mutator.f = "ClearLowBits"
    /\ result = "Ok"
    /\ last.fInput % 4 /= 0
    /\ value = last.fInput - (last.fInput % 4)

(***************************************************************************)
(* Properties of the check harness.                                        *)
(***************************************************************************)
(* Properties of the combinators and of the mutators of compound types.   *)
(***************************************************************************)

\* The MutationSet a counting pass starts with.
CountingSet(sh) ==
    [shrink |-> sh, rng |-> << >>, phase |-> "Count", count |-> 0, current |-> 0,
     target |-> 0, applied_mutation |-> FALSE, log |-> << >>]

\* The results a counting pass of m alone over v can have, and the numbers of
\* candidates it can register.
CountResults(m, sh, v) == { c.res : c \in Mutate(m, CountingSet(sh), v) }

Counts(m, sh, v) == { c.ms.count : c \in Mutate(m, CountingSet(sh), v) }

\* What m alone can do to v when its candidate with the index t is selected:
\* the value afterwards and the result.
Applies(m, sh, v, t) ==
    { [value |-> c.value, res |-> c.res]
      : c \in { d \in ChooseAndApplyMutation(m, [shrink |-> sh, rng |-> << >>], v)
                : d.target = t } }

\* C21: a counting pass of left.or(right) in which both branches register
\* without error counts count(left) + count(right) candidates; a target below
\* count(left) does what left alone does for that target and any other target
\* does what right alone does for target - count(left); every index below the
\* count can be the target.
C21_OrConcatenatesCandidates ==
    (last.called /\ mutator.kind = "Or" /\ last.countRes = "Ok") =>
        LET a == CHOOSE n \in Counts(mutator.left, shrink, last.before) : TRUE
            b == CHOOSE n \in Counts(mutator.right, shrink, last.before) : TRUE
            done == [value |-> value, res |-> result]
        IN  /\ Counts(mutator.left, shrink, last.before) = { a }
            /\ Counts(mutator.right, shrink, last.before) = { b }
            /\ last.count = a + b
            /\ last.count > 0 =>
                    /\ 0 <= last.target /\ last.target < a + b
                    /\ last.target < a =>
                            done \in Applies(mutator.left, shrink, last.before,
                                             last.target)
                    /\ last.target >= a =>
                            done \in Applies(mutator.right, shrink, last.before,
                                             last.target - a)
                    /\ { t.v : t \in GenIndex(last.count) } = 0 .. (last.count - 1)

\* The choice between a range and the char mutator applied the second of the
\* char mutator's candidates, which is the third of the choice.
C21_Witness ==
    /\ last.called
    /\ mutator = Or(Range("U", 0, 1), Char)
    /\ ~shrink
    /\ last.count = 1 + Len(CharBlocks) + 1
    /\ last.target = 2
    /\ result = "Ok"
    /\ value \in CharBlocks[2].start .. CharBlocks[2].end

\* The elements of an array or a tuple, in order, each with its mutator.
Elements(m, v) ==
    IF m.kind = "Array" THEN [i \in 1 .. Len(v) |-> [m |-> m.inner, v |-> v[i]]]
    ELSE << [m |-> m.a, v |-> v.a], [m |-> m.b, v |-> v.b] >>

\* The number of candidates the first n of the elements els register, each
\* counted by a counting pass of its own.
RECURSIVE CountsBefore(_, _, _)
CountsBefore(els, sh, n) ==
    IF n = 0 THEN 0
    ELSE CountsBefore(els, sh, n - 1)
         + (CHOOSE c \in Counts(els[n].m, sh, els[n].v) : TRUE)

\* C22: for an array or tuple whose elements all register without error, the
\* count is the sum of the elements' own counts; a successful mutation leaves
\* every element unchanged but the one whose candidates, in element order,
\* include the target, and does to that one what its mutator alone does for
\* the target less the candidates of the elements before; an array of length
\* 0 is exhausted.
C22_ElementsRegisterInOrder ==
    (last.called /\ mutator.kind \in {"Array", "Tuple2"} /\ last.countRes = "Ok") =>
        LET old == Elements(mutator, last.before)
            new == Elements(mutator, value)
            n   == Len(old)
        IN  /\ \A i \in 1 .. n : Cardinality(Counts(old[i].m, shrink, old[i].v)) = 1
            /\ last.count = CountsBefore(old, shrink, n)
            /\ n = 0 => result = "Exhausted"
            /\ result = "Ok" =>
                    \E k \in 1 .. n :
                        /\ CountsBefore(old, shrink, k - 1) <= last.target
                        /\ last.target < CountsBefore(old, shrink, k)
                        /\ \A i \in (1 .. n) \ { k } : new[i].v = old[i].v
                        /\ [value |-> new[k].v, res |-> "Ok"]
                              \in Applies(old[k].m, shrink, old[k].v,
                                          last.target - CountsBefore(old, shrink, k - 1))

\* A tuple whose second element owns the selected candidate, the second of its
\* own two: the option becomes None and the bool is unchanged.
C22_Witness ==
    /\ last.called
    /\ mutator.kind = "Tuple2"
    /\ last.before.b.tag = "Some"
    /\ last.count = 3
    /\ last.target = 2
    /\ result = "Ok"
    /\ value.b = None
    /\ value.a = last.before.a

\* C23: outside shrink mode the option mutator registers exactly one candidate
\* for None, which makes it Some of a generated value; for Some(v), if the
\* inner mutator registers without error, it registers the inner mutator's
\* candidates for v and then one more, which makes the value None; in shrink
\* mode it registers nothing for None, and a mutation of None leaves it None.
C23_OptionCandidates ==
    (last.called /\ mutator.kind = "Option") =>
        /\ (~shrink /\ last.before = None) =>
                /\ last.countRes = "Ok"
                /\ last.count = 1
                /\ result = "Ok" => value.tag = "Some"
                /\ result /= "Ok" => value = None
        /\ (last.before.tag = "Some" /\ last.countRes = "Ok") =>
                LET inner == Counts(mutator.inner, shrink, last.before.v)
                IN  /\ inner = { last.count - 1 }
                    /\ (result = "Ok" /\ last.target = last.count - 1) =>
                            value = None
                    /\ (result = "Ok" /\ last.target < last.count - 1) =>
                            /\ value.tag = "Some"
                            /\ [value |-> value.v, res |-> "Ok"]
                                  \in Applies(mutator.inner, shrink, last.before.v,
                                              last.target)
        /\ (shrink /\ last.before = None) =>
                /\ last.countRes = "Ok"
                /\ last.count = 0
                /\ last.applyLog = << >>
                /\ value = None

\* In shrink mode, a Some was mutated (the generator was used) and has become
\* None, and a further mutation found no candidate and left it None.
C23_Witness ==
    /\ last.called
    /\ mutator.kind = "Option"
    /\ shrink
    /\ rng > 0
    /\ last.before = None
    /\ last.count = 0
    /\ result = "Exhausted"
    /\ value = None

\* C33: a mutation through some() that returns Ok leaves a Some, and none,
\* whatever it returns, turns a Some into None.  Outside shrink mode a None
\* has one candidate, which makes it Some of a generated value; a Some has
\* the candidates of the inner mutator for its payload and no other, and the
\* one applied is the inner mutator's; in shrink mode a None has no candidate.
C33_SomeStaysSome ==
    (last.called /\ mutator.kind = "Some") =>
        /\ result = "Ok" => value.tag = "Some"
        /\ value = None => last.before = None
        /\ (~shrink /\ last.before = None) =>
                /\ last.countRes = "Ok"
                /\ last.count = 1
                /\ result /= "Ok" => value = None
        /\ (last.before.tag = "Some" /\ last.countRes = "Ok") =>
                /\ Counts(mutator.inner, shrink, last.before.v) = { last.count }
                /\ result = "Ok" =>
                        [value |-> value.v, res |-> "Ok"]
                            \in Applies(mutator.inner, shrink, last.before.v,
                                        last.target)
        /\ (shrink /\ last.before = None) =>
                /\ last.count = 0
                /\ result = "Exhausted"
                /\ value = None

\* After an earlier mutation that used the generator, a mutation changed the
\* payload of a Some and left it Some.
C33_Witness ==
    /\ last.called
    /\ mutator.kind = "Some"
    /\ ~shrink
    /\ rng > last.draws
    /\ last.before.tag = "Some"
    /\ result = "Ok"
    /\ value.tag = "Some"
    /\ value /= last.before

\* C34: outside shrink mode the bool mutator registers one candidate, and the
\* mutation returns Ok with the value negated, so that a second mutation
\* restores what the first one found; in shrink mode it registers that
\* candidate for true only: true becomes false, false is exhausted and stays,
\* and the value is false after every shrink-mode mutation.
C34_BoolNegates ==
    /\ []((last.called /\ mutator.kind = "Bool") =>
              /\ (~shrink \/ last.before) =>
                      /\ last.countRes = "Ok"
                      /\ last.count = 1
                      /\ last.target = 0
                      /\ result = "Ok"
                      /\ value = ~last.before
              /\ (shrink /\ ~last.before) =>
                      /\ last.countRes = "Ok"
                      /\ last.count = 0
                      /\ last.applyLog = << >>
                      /\ result = "Exhausted"
              /\ shrink => value = FALSE)
    /\ [][(last.called /\ mutator.kind = "Bool" /\ ~shrink) =>
              value' = last.before]_vars

\* Outside shrink mode false was mutated twice and is false again.
C34_Witness ==
    /\ last.called
    /\ mutator.kind = "Bool"
    /\ ~shrink
    /\ rng >= 2
    /\ last.before = TRUE
    /\ value = FALSE
    /\ result = "Ok"

\* The registrations of the applying pass whose closure returned an error.
FailedClosures ==
    { i \in 1 .. Len(last.applyLog) :
        last.applyLog[i].invoked /\ last.applyLog[i].fres \in PublicErrors }

\* C38: if the closure invoked in the applying pass returns an error, its
\* registration returns that error and not the EarlyExit signal; for a
\* mutator that propagates what its registrations return, that registration
\* is the last of the pass and the only one whose closure was invoked, the
\* pass ends with the error, and the call returns it, without a panic.
C38_ClosureErrorReturned ==
    last.called =>
        \A i \in FailedClosures :
            /\ last.applyLog[i].ret = last.applyLog[i].fres
            /\ Propagates(mutator) =>
                    /\ i = Len(last.applyLog)
                    /\ \A j \in 1 .. (i - 1) : ~last.applyLog[j].invoked
                    /\ last.applyRes = last.applyLog[i].fres
                    /\ result = last.applyLog[i].fres

\* The closure of the second of two candidates was chosen and returned
\* an error, which the call returned.
C38_Witness ==
    /\ last.called
    /\ last.count >= 2
    /\ last.target = 1
    /\ FailedClosures = { 2 }
    /\ result \in PublicErrors
    /\ result = last.applyLog[2].fres

\* The mutator of the payload of a result value v, and the tag of the other
\* variant.
PayloadMutator(m, v) == IF v.tag = "Ok" THEN m.ok ELSE m.err

OtherTag(v) == IF v.tag = "Ok" THEN "Err" ELSE "Ok"

\* C24: in shrink mode the result mutator registers for an Ok value the ok
\* mutator's candidates and nothing else, and a mutation of an Ok value leaves
\* it Ok.  For an Err value in both modes, and for an Ok value outside shrink
\* mode, it registers the payload mutator's candidates and then one more,
\* which changes the variant; every earlier index does what the payload's
\* mutator alone does.
C24_ResultCandidates ==
    (last.called /\ mutator.kind = "Result") =>
        /\ (shrink /\ last.before.tag = "Ok") => value.tag = "Ok"
        /\ last.countRes = "Ok" =>
                LET pm    == PayloadMutator(mutator, last.before)
                    inner == Counts(pm, shrink, last.before.v)
                IN  IF shrink /\ last.before.tag = "Ok"
                    THEN inner = { last.count }
                    ELSE /\ inner = { last.count - 1 }
                         /\ (result = "Ok" /\ last.target = last.count - 1) =>
                                 value.tag = OtherTag(last.before)
                         /\ (result = "Ok" /\ last.target < last.count - 1) =>
                                 /\ value.tag = last.before.tag
                                 /\ [value |-> value.v, res |-> "Ok"]
                                       \in Applies(pm, shrink, last.before.v,
                                                   last.target)

\* In shrink mode, after an earlier mutation that used the generator, an Ok
\* value was mutated to a smaller payload and is still Ok.
C24_Witness ==
    /\ last.called
    /\ mutator.kind = "Result"
    /\ shrink
    /\ last.before.tag = "Ok"
    /\ last.draws < rng
    /\ result = "Ok"
    /\ value.tag = "Ok"
    /\ value.v < last.before.v

(***************************************************************************)

\* The last evaluation of the property that did not pass was on v, and
\* check_one's message for it (the placeholder after a panic) is msg.
ObservedFailure(v, msg) ==
    /\ evals.failed > 0
    /\ evals.lastFailed.value = v
    /\ msg = (IF evals.lastFailed.out = "Panic" THEN Panicked
              ELSE Property(check.property, v).msg)

\* C6: a reported failure carries a value on which the property was evaluated
\* and failed, with the message of that evaluation (the placeholder after a
\* panic); and at every moment of shrinking the best-known value and message
\* are those of an evaluation that failed, never of one that passed.
C6_FailureWasObserved ==
    /\ checkResult.kind = "Failed" =>
            ObservedFailure(checkResult.value, checkResult.message)
    /\ pc = "Shrinking" => ObservedFailure(failing.value, failing.message)

\* A failure was reported after shrinking replaced the first failing value.
C6_Witness ==
    /\ checkResult.kind = "Failed"
    /\ \A i \in 1 .. Len(corpus) : corpus[i] /= checkResult.value
    /\ evals.failed >= 2
    /\ evals.passed >= 1

\* C7: Check::run returns Ok only if no evaluation of the property failed or
\* panicked, every member of the initial corpus having been evaluated; what it
\* returns is one of Ok, EmptyCorpus, MutatorError and Failed.
C7_OkOnlyIfAllPassed ==
    /\ pc = "Done" <=> checkResult.kind /= "none"
    /\ checkResult.kind \in {"none", "Ok", "EmptyCorpus", "MutatorError", "Failed"}
    /\ checkResult.kind = "Ok" =>
            /\ evals.failed = 0
            /\ evals.passed >= Len(check.initial_corpus)
            /\ \A i \in 1 .. Len(check.initial_corpus) :
                  Property(check.property, check.initial_corpus[i]).kind = "Ok"

\* Ok was returned after mutated values were evaluated.
C7_Witness ==
    /\ checkResult.kind = "Ok"
    /\ calls >= 2
    /\ evals.passed >= 3
    /\ corpus /= check.initial_corpus

\* C8: with an empty initial corpus Check::run returns EmptyCorpus, for every
\* mutator, property and configuration, without calling the property or the
\* mutator.
C8_EmptyCorpus ==
    (check.initial_corpus = << >> /\ pc /= "Ready") =>
        /\ pc = "Done"
        /\ checkResult = [kind |-> "EmptyCorpus"]
        /\ evals = NoEvals
        /\ calls = 0

C8_Witness ==
    /\ pc = "Done"
    /\ checkResult.kind = "EmptyCorpus"
    /\ check.iters > 0

\* The 1-based index of the first member of the corpus c on which the property
\* p fails, 0 if it fails on none.
FirstFailure(p, c) ==
    IF \A i \in 1 .. Len(c) : CheckOne(p, c[i]).ok THEN 0
    ELSE CHOOSE i \in 1 .. Len(c) :
            /\ ~CheckOne(p, c[i]).ok
            /\ \A j \in 1 .. (i - 1) : CheckOne(p, c[j]).ok

\* C25: while the initial corpus is being verified its members have been
\* evaluated in order, all passing so far, and the mutator has not been
\* called; the mutation phase is entered only if every member passes.  If the
\* property fails on a member, the first such member and its message are what
\* shrinking starts from, the members before it and no others having been
\* evaluated; the corpus is never mutated and every call of the mutator is one
\* of the shrink loop.
C25_CorpusVerifiedFirst ==
    LET f == FirstFailure(check.property, check.initial_corpus)
    IN  /\ pc = "VerifyingCorpus" =>
                /\ calls = 0
                /\ corpus = check.initial_corpus
                /\ evals = [NoEvals EXCEPT !.passed = iter]
                /\ f = 0 \/ iter < f
        /\ pc = "Mutating" => f = 0
        /\ calls > 0 /\ pc \notin {"Shrinking", "Done", "Aborted"} => f = 0
        /\ (f > 0 /\ pc \in {"Shrinking", "Done", "Aborted"}) =>
                /\ corpus = check.initial_corpus
                /\ calls <= check.shrink_iters
                /\ calls \in {iter, iter + 1}
                /\ calls = 0 =>
                        /\ failing.value = corpus[f]
                        /\ failing.message = CheckOne(check.property, corpus[f]).msg
                        /\ evals.passed = f - 1
                        /\ evals.failed = 1
                        /\ evals.lastFailed.value = corpus[f]
                /\ (pc = "Done" /\ check.shrink_iters = 0) =>
                        checkResult = Failed([value |-> corpus[f],
                                              message |-> CheckOne(check.property,
                                                                   corpus[f]).msg])

\* The property passed on the first member and failed on the second, and
\* shrinking is about to start from the second.
C25_Witness ==
    /\ pc = "Shrinking"
    /\ calls = 0
    /\ FirstFailure(check.property, check.initial_corpus) = 2
    /\ failing.value = corpus[2]
    /\ evals.passed = 1

\* How often x occurs in the sequence q.
Occurrences(q, x) == Cardinality({ i \in 1 .. Len(q) : q[i] = x })

\* The corpus q without its member i: one occurrence less of q[i], and as
\* many as before of every other value.
Without(q, i, r) ==
    /\ Len(r) = Len(q) - 1
    /\ \A j \in 1 .. Len(q) :
          Occurrences(r, q[j]) = Occurrences(q, q[j]) - (IF q[j] = q[i] THEN 1 ELSE 0)
    /\ \A j \in 1 .. Len(r) : Occurrences(q, r[j]) > 0

\* The corpus keeps its length and its members other than i.
CorpusKept(i) ==
    /\ Len(corpus') = Len(corpus)
    /\ \A j \in (1 .. Len(corpus)) \ { i } : corpus'[j] = corpus[j]

\* What a mutation iteration does to the corpus when it chooses the member i
\* and the mutator's call has the outcome c.
CorpusAfter(i, c) ==
    IF c.res = "Exhausted"
    THEN /\ Without(corpus, i, corpus')
         /\ corpus' = << >> => (pc' = "Done" /\ checkResult' = [kind |-> "Ok"])
    ELSE CorpusKept(i)

\* C26: the corpus is not empty at the start of a mutation iteration and is
\* never longer than the initial corpus; once the run has started it is empty
\* only when the run has returned Ok.  A mutation iteration in which the
\* mutator reports Exhausted for the chosen member removes that member and
\* keeps the others, and returns Ok if none is left; any other iteration
\* leaves the length of the corpus and the other members as they were.
C26_ExhaustedMemberRemoved ==
    /\ [](/\ pc = "Mutating" => corpus /= << >>
          /\ Len(corpus) <= Len(check.initial_corpus)
          /\ (corpus = << >> /\ check.initial_corpus /= << >> /\ pc /= "Ready") =>
                  (pc = "Done" /\ checkResult = [kind |-> "Ok"]))
    /\ [][(pc = "Mutating" /\ iter < check.iters) =>
              \E i \in 1 .. Len(corpus) :
                  /\ CorpusKept(i) \/ Without(corpus, i, corpus')
                  /\ \E c \in MutatorCall(mutator, [shrink |-> FALSE, rng |-> << >>],
                                          corpus[i]) :
                        CorpusAfter(i, c)]_vars

\* The mutator was exhausted for the first of two different members; that
\* member is gone, the property passed on the other and the mutation phase
\* goes on.
C26_Witness ==
    /\ pc = "Mutating"
    /\ mutator = FromFn("Countdown")
    /\ check.initial_corpus = << 0, Pow2(IntBits) - 1 >>
    /\ corpus = << Pow2(IntBits) - 1 >>
    /\ calls = 1
    /\ iter = 1

\* The errors of a mutator other than exhaustion.
OtherErrors == PublicErrors \ { "Exhausted" }

\* C27: a mutation iteration in which the mutator returns an error other than
\* exhaustion ends the run with MutatorError carrying that error, leaving the
\* corpus, the evaluations made and the shrink state as they were, and no other
\* iteration returns MutatorError.  Whenever MutatorError has been returned,
\* the property was evaluated once for each member of the initial corpus and
\* once for each earlier mutation iteration, never failing, and shrinking was
\* never entered.
C27_MutatorErrorReturned ==
    /\ [](checkResult.kind = "MutatorError" =>
              /\ pc = "Done"
              /\ checkResult.error \in OtherErrors
              /\ calls = iter + 1
              /\ evals.failed = 0
              /\ evals.passed = Len(check.initial_corpus) + iter
              /\ failing = NoFailure)
    /\ [][(pc = "Mutating" /\ iter < check.iters) =>
              \E i \in 1 .. Len(corpus) :
                  \E c \in MutatorCall(mutator, [shrink |-> FALSE, rng |-> << >>],
                                       corpus[i]) :
                      IF c.res \in OtherErrors
                      THEN /\ pc' = "Done"
                           /\ checkResult' = [kind |-> "MutatorError", error |-> c.res]
                           /\ UNCHANGED << corpus, evals, failing, iter >>
                      ELSE checkResult'.kind /= "MutatorError"]_vars

\* A range mutator that was given an inverted range made the run return its
\* error in the first mutation iteration, after a corpus of two was verified.
C27_Witness ==
    /\ checkResult = [kind |-> "MutatorError", error |-> "InvalidRange"]
    /\ Len(check.initial_corpus) = 2
    /\ evals.passed = 2
    /\ calls = 1
    /\ check.shrink_iters > 0

\* What an iteration of the shrink loop does when the mutator's call on the
\* best-known value has the outcome c.
ShrinkAfter(c) ==
    CASE c.res = "Exhausted" ->
            /\ pc' = "Done"
            /\ checkResult' = Failed(failing)
            /\ UNCHANGED << failing, evals, iter >>
      [] c.res \in OtherErrors ->
            /\ pc' = "Shrinking"
            /\ iter' = iter + 1
            /\ UNCHANGED << failing, evals, checkResult >>
      [] c.res = "Ok" ->
            /\ pc' = "Shrinking"
            /\ iter' = iter + 1
            /\ failing' \in { failing,
                               [value |-> c.value,
                                message |-> CheckOne(check.property, c.value).msg] }
            /\ checkResult' = checkResult
      [] OTHER -> pc' = "Aborted"

\* C28: once an evaluation of the property has failed, the run is shrinking or
\* over, and what it returns is Failed with the best-known value and message;
\* with shrink_iters = 0 it is over at once, reporting the one value that
\* failed and its message.  In an iteration of the shrink loop an Exhausted
\* mutator ends the loop, reporting the best-known failure; any other mutator
\* error leaves the best-known failure and the loop goes on to its next
\* iteration; after the last iteration the best-known failure is reported.
C28_FailureAlwaysReported ==
    /\ [](evals.failed > 0 =>
              /\ pc \in {"Shrinking", "Done", "Aborted"}
              /\ pc = "Done" => checkResult = Failed(failing)
              /\ check.shrink_iters = 0 =>
                      /\ pc = "Done"
                      /\ evals.failed = 1
                      /\ failing.value = evals.lastFailed.value
                      /\ failing.message
                            = CheckOne(check.property, evals.lastFailed.value).msg)
    /\ [][pc = "Shrinking" =>
              IF iter < check.shrink_iters
              THEN \E c \in MutatorCall(mutator, [shrink |-> TRUE, rng |-> << >>],
                                        failing.value) : ShrinkAfter(c)
              ELSE /\ pc' = "Done"
                   /\ checkResult' = Failed(failing)
                   /\ failing' = failing]_vars

\* A range mutator that was given an inverted range failed in every shrink
\* iteration, two at least, and the failure found in the corpus was reported
\* as it was.
C28_Witness ==
    /\ pc = "Done"
    /\ mutator = Range("U", 2, 1)
    /\ check.shrink_iters >= 2
    /\ calls = check.shrink_iters
    /\ iter = check.shrink_iters
    /\ checkResult.kind = "Failed"
    /\ checkResult.value = check.initial_corpus[1]
    /\ evals.failed = 1

\* The property given to the run panics where it fails.
PropertyPanics == check.property.kind = "Less" /\ check.property.panics

\* C29: for a property that panics on the values at or above k, check_one
\* returns the placeholder message for those values and Ok for the others;
\* the step in which the property panics does not abort the run but starts or
\* continues shrinking; the best-known failure is then a value on which the
\* property panics, with the placeholder message, and that is what is
\* reported.
C29_PanicIsAFailure ==
    /\ [](PropertyPanics =>
              /\ \A v \in Domain("U") :
                    CheckOne(check.property, v)
                      = (IF v < check.property.k
                         THEN [ok |-> TRUE, msg |-> NoMessage]
                         ELSE [ok |-> FALSE, msg |-> Panicked])
              /\ evals.failed > 0 =>
                    /\ evals.lastFailed.out = "Panic"
                    /\ failing.value >= check.property.k
                    /\ failing.message = Panicked
                    /\ failing.message.text = "<panicked>"
              /\ (evals.failed > 0 /\ pc = "Done") =>
                    checkResult = [kind |-> "Failed", value |-> failing.value,
                                   message |-> Panicked])
    /\ [][(PropertyPanics /\ evals'.failed > evals.failed) =>
              /\ pc' \in {"Shrinking", "Done"}
              /\ failing'.value = evals'.lastFailed.value
              /\ failing'.message = Panicked]_vars

\* The property panicked on a member of the corpus and again on a smaller
\* value found by shrinking, and the smaller value was reported with the
\* placeholder message.
C29_Witness ==
    /\ PropertyPanics
    /\ pc = "Done"
    /\ evals.failed >= 2
    /\ checkResult.kind = "Failed"
    /\ checkResult.message = Panicked
    /\ \A i \in 1 .. Len(check.initial_corpus) :
          checkResult.value < check.initial_corpus[i]
          \/ Property(check.property, check.initial_corpus[i]).kind = "Ok"

Evaluations == evals.passed + evals.failed

\* The run is over: it has returned, or a panic has ended it.
RunOver == pc \in {"Done", "Aborted"}

\* A bound on the steps the run can still take: what is left of the loop it
\* is in, and the whole of the loops that can follow.
StepsLeft ==
    CASE pc = "Ready" ->
            Len(check.initial_corpus) + check.iters + check.shrink_iters + 4
      [] pc = "VerifyingCorpus" ->
            (Len(corpus) - iter) + check.iters + check.shrink_iters + 3
      [] pc = "Mutating" -> (check.iters - iter) + check.shrink_iters + 2
      [] pc = "Shrinking" -> (check.shrink_iters - iter) + 1
      [] OTHER -> 0

\* C31: every run ends: as long as it is not over it can take a step, and
\* every step brings it nearer to the end of its loops.  The mutation loop makes at most `iters` iterations
\* and the shrink loop, which is never left for the mutation loop, at most
\* `shrink_iters`; every step makes at most one call of the mutator and at
\* most one evaluation of the property, and a step that calls the mutator
\* counts as an iteration or ends the loop; a result is there exactly when
\* the run has returned, and nothing is done after that.
C31_RunTerminates ==
    /\ [](/\ pc = "Mutating" => (iter <= check.iters /\ calls = iter)
          /\ pc = "Shrinking" => iter <= check.shrink_iters
          /\ calls <= check.iters + check.shrink_iters
          /\ Evaluations <= Len(check.initial_corpus) + calls
          /\ checkResult.kind /= "none" <=> pc = "Done"
          /\ StepsLeft >= 0
          /\ ~RunOver => ENABLED NextCheck)
    /\ [][/\ ~RunOver
          /\ StepsLeft' < StepsLeft
          /\ calls' \in {calls, calls + 1}
          /\ Evaluations' \in {Evaluations, Evaluations + 1}
          /\ (calls' = calls /\ pc \in {"Mutating", "Shrinking"}) => pc' = "Done"
          /\ (calls' = calls + 1 /\ pc' = pc) => iter' = iter + 1
          /\ pc = "Shrinking" => pc' /= "Mutating"]_vars

\* A run that used all its iterations: every mutation iteration passed but
\* the last, and the shrink loop then ran to its limit.
C31_Witness ==
    /\ pc = "Done"
    /\ check.iters > 0
    /\ check.shrink_iters > 0
    /\ calls = check.iters + check.shrink_iters
    /\ Evaluations = Len(check.initial_corpus) + calls
    /\ checkResult.kind = "Failed"

\* C32: every call of just(c) returns Ok and leaves the value c, whatever the
\* value was and whatever the mode; so the value is c after the first call
\* and after every later one, and a call on the value a call has left
\* changes nothing.
C32_JustIsIdempotent ==
    /\ []((mutator.kind = "Just" /\ last.fRuns > 0) =>
              (result = "Ok" /\ value = mutator.value))
    /\ [][mutator.kind = "Just" =>
              /\ result' = "Ok"
              /\ value' = mutator.value
              /\ last.fRuns > 0 => value' = value]_vars

\* just(c) was called twice in a row: the second call found c and left it.
C32_Witness ==
    /\ mutator.kind = "Just"
    /\ last.fRuns = 2
    /\ last.before = mutator.value
    /\ value = mutator.value
    /\ result = "Ok"

\* The errors that the registrations of the last call returned to the
\* mutator's frame.
ReturnedErrors ==
    { last.countLog[i].ret : i \in 1 .. Len(last.countLog) }
    \cup { last.applyLog[i].ret : i \in 1 .. Len(last.applyLog) }

\* C35: a mutator that looks at the error of its nested call with a public
\* method of Error or with ignore_exhausted does not make the call abort;
\* the method has an answer for every error that a registration returned,
\* the EarlyExit signal included, which is not reported as Exhausted; and
\* ignore_exhausted gives Ok for Exhausted and gives back every other error.
C35_EarlyExitIsOrdinaryError ==
    (last.called /\ mutator.kind = "Inspect") =>
        /\ result /= "PanicUnreachable"
        /\ \A e \in ReturnedErrors \cap ({"EarlyExit"} \cup PublicErrors) :
                /\ ~IsPanic(Answer(mutator.method, e))
                /\ e /= "Exhausted" => IsExhausted(e) = "false"
                /\ IgnoreExhausted(e) = (IF e = "Exhausted" THEN "Ok" ELSE e)

\* C36: no mutation iteration ends the run with a panic: every access
\* corpus[index] is within the corpus.  In particular, when the chosen member
\* was exhausted and removed and others remain, the property is evaluated and
\* the run goes on or starts shrinking.
C36_CorpusIndexInBounds ==
    [][(pc = "Mutating" /\ iter < check.iters) =>
          /\ pc' /= "Aborted"
          /\ (Len(corpus') < Len(corpus) /\ corpus' /= << >>) =>
                  /\ Evaluations' = Evaluations + 1
                  /\ pc' \in {"Mutating", "Shrinking", "Done"}]_vars

\* C37: one_of makes at most as many attempts as it has sub-mutators, and
\* goes on to another attempt only when the one picked was exhausted; it
\* returns Exhausted only when every one of its attempts was exhausted (at
\* once for the empty tuple), returns any other error of the one picked to
\* the caller, and when it returns Ok the value is what the one sub-mutator
\* picked last has made of the value as it was.
C37_OneOfRetriesExhausted ==
    (mutator.kind = "OneOf" /\ last.fRuns > 0) =>
        LET t == last.tries
            n == Len(mutator.inner)
        IN  /\ Len(t) <= n
            /\ \A k \in 1 .. (Len(t) - 1) : t[k].res = "Exhausted"
            /\ n = 0 => result = "Exhausted"
            /\ result = "Exhausted" =>
                    /\ Len(t) = n
                    /\ \A k \in 1 .. n : t[k].res = "Exhausted"
            /\ (t /= << >> /\ t[Len(t)].res \in OtherErrors) =>
                    result = t[Len(t)].res
            /\ result = "Ok" =>
                    /\ t /= << >>
                    /\ t[Len(t)].res = "Ok"
                    /\ [value |-> value, res |-> "Ok"]
                          \in WithEntry(mutator.inner[t[Len(t)].index + 1],
                                        [shrink |-> shrink, rng |-> << >>],
                                        last.before)

====
